---- MODULE Spec2Model ----
(***************************************************************************)
(* Model of the Firebolt geospatial demo: the synthetic data generator     *)
(* (generate_sample_data.py) and the three demo handlers of the dashboard  *)
(* (app_geospatial_demo.py).                                               *)
(*                                                                         *)
(* Units.  Coordinates are integers in micro-degrees (the generator rounds *)
(* to 6 decimals); values before that rounding are in 1e-7 degree.  Money  *)
(* is in cents (order_value is rounded to 2 decimals).  Unrounded          *)
(* distances are in millimetres, distances rounded to 2 decimals of a      *)
(* kilometre are in units of 0.01 km.  Minutes before int() are in tenths. *)
(***************************************************************************)
EXTENDS Integers, Sequences, FiniteSets, TLC

VARIABLES
    \* ---- the database -------------------------------------------------
    customer_orders,     \* rows of table customer_orders, in storage order
    geo_zones_columns,   \* column names of table geo_zones
    geo_zones,           \* rows of table geo_zones, in storage order
    \* ---- one run of a dashboard handler (a Streamlit rerun) ------------
    demo,                \* which handler ran: "none", "distance", "contains", "covers"
    conn_up,             \* the connection was available and the engine answered
    queries_run,         \* the queries the handler of the run passed to run_query
    query_errors,        \* the queries of the run whose execution raised
    outcome,             \* the branch the handler ended in
    selected,            \* selected_stores / selected_zones, in selection order
    max_distance,        \* slider, km
    min_order_value,     \* slider, dollars
    selected_center,     \* key of reference_points
    coverage_radius,     \* slider, in steps of 0.5 km
    results_df,          \* results_df / coverage_df as displayed
    store_analysis,      \* the per-store table of the distance handler
    coverage_rate,       \* NoRate, or the percentage num / den
    \* ---- generate_customer_orders -------------------------------------
    gen_pc,              \* "idle", "loop", "done"
    num_orders,          \* the argument
    i,                   \* the loop variable
    orders,              \* the list being built
    \* ---- generate_sample_data.py: main and insert_data_batch ------------
    main_pc,             \* position of main
    runs,                \* how many times the script has been started
    connection,          \* "none", "open", "closed"
    statements,          \* the SQL statements the run has issued, in order
    printed,             \* what the run has printed: the batch reports of
                         \* insert_data_batch, and why main returned early
    insert_pc,           \* position of insert_data_batch: "idle", "loop", "closing"
    table_name,          \* its argument table_name
    insert_df,           \* its argument df
    batch_i,             \* its loop variable i, a row offset
    cursor,              \* its cursor: "none", "open", "closed"
    \* ---- app_geospatial_demo.py: a call of haversine_distance ----------
    hav_pc,              \* "idle", "called", "returned"
    hav_args,            \* <<lat1, lon1, lat2, lon2>> of the call
    hav_result           \* what the call returned

dbVars  == <<customer_orders, geo_zones_columns, geo_zones>>
runVars == <<demo, conn_up, queries_run, query_errors, outcome, selected, max_distance, min_order_value,
             selected_center, coverage_radius, results_df, store_analysis,
             coverage_rate>>
mainVars == <<main_pc, runs, connection, statements, printed,
              insert_pc, table_name, insert_df, batch_i, cursor>>
genVars == <<gen_pc, num_orders, i, orders, mainVars>>
havVars == <<hav_pc, hav_args, hav_result>>
vars    == <<dbVars, runVars, genVars, havVars>>

(***************************************************************************)
(* Bounds of the model.                                                    *)
(***************************************************************************)
\* largest num_orders passed to generate_customer_orders
MaxGenOrders == 2
\* largest number of rows of customer_orders the handlers are run on
MaxOrders == 3
\* largest number of times the generator script is started on one database
MaxRuns == 2

(***************************************************************************)
(* Arithmetic helpers.                                                     *)
(***************************************************************************)
Abs(x) == IF x < 0 THEN -x ELSE x
Max2(a, b) == IF a >= b THEN a ELSE b
Min2(a, b) == IF a <= b THEN a ELSE b

\* int(x): truncation toward zero of x / d
TruncDiv(x, d) == IF x >= 0 THEN x \div d ELSE -((-x) \div d)

\* round(x / d) to the nearest integer, ties to even (Python round, numpy round)
RoundHalfEven(x, d) ==
    LET q == x \div d
        r == x % d
    IN  IF 2 * r < d THEN q
        ELSE IF 2 * r > d THEN q + 1
        ELSE IF q % 2 = 0 THEN q ELSE q + 1

RECURSIVE IsqrtIn(_, _, _)
IsqrtIn(n, lo, hi) ==
    IF lo >= hi THEN lo
    ELSE LET mid == (lo + hi + 1) \div 2
         IN  IF mid * mid <= n THEN IsqrtIn(n, mid, hi) ELSE IsqrtIn(n, lo, mid - 1)

\* floor(sqrt(n)) for 0 <= n < 2^31
Isqrt(n) == IsqrtIn(n, 0, 46340)

RECURSIVE Digits(_)
\* the decimal digits of n >= 0, most significant first
Digits(n) == IF n < 10 THEN <<n>> ELSE Append(Digits(n \div 10), n % 10)

RECURSIVE ZeroPad(_, _)
\* format spec 0<width>d: pad on the left with zeros to at least width digits
ZeroPad(ds, width) == IF Len(ds) >= width THEN ds ELSE ZeroPad(<<0>> \o ds, width)

(***************************************************************************)
(* generate_sample_data.py: the store catalogue and the generator.         *)
(***************************************************************************)
bengaluru_bounds ==
    [lat_min |-> 12800000, lat_max |-> 13200000,
     lon_min |-> 77400000, lon_max |-> 77800000]

\* stores 1..8 are STORE_001..STORE_008
stores ==
    <<[id |-> 1, lat |-> 12927900, lon |-> 77627100],
      [id |-> 2, lat |-> 12978400, lon |-> 77640800],
      [id |-> 3, lat |-> 12969800, lon |-> 77750000],
      [id |-> 4, lat |-> 12845600, lon |-> 77660300],
      [id |-> 5, lat |-> 12908300, lon |-> 77583300],
      [id |-> 6, lat |-> 12959100, lon |-> 77697400],
      [id |-> 7, lat |-> 12911600, lon |-> 77647300],
      [id |-> 8, lat |-> 12991500, lon |-> 77563200]>>

\* f'ORD_{i+1:06d}' for the loop variable k
FormatOrderIdOffByOne(k) == [prefix |-> "ORD_", digits |-> ZeroPad(Digits(k), 6)]
FormatOrderId(k) == [prefix |-> "ORD_", digits |-> ZeroPad(Digits(k + 1), 6)]

\* max(lo, min(hi, x))
ClampNoUpper(lo, hi, x) == Max2(lo, x)
Clamp(lo, hi, x) == Max2(lo, Min2(hi, x))

\* round(x, 6) of a coordinate held in 1e-7 degree: micro-degrees
Round6(x) == RoundHalfEven(x, 10)

\* np.sqrt(lat_offset**2 + lon_offset**2) * 1000, in tenths of a minute; the
\* offsets (1e-7 degree) are taken at a resolution of 1e-4 degree
distance_delivery_time(lat_offset, lon_offset) ==
    LET la == TruncDiv(lat_offset, 1000)
        lo == TruncDiv(lon_offset, 1000)
    IN  Isqrt(la * la + lo * lo)

\* int(base_delivery_time + distance_delivery_time + noise), clamped to 10..90
delivery_time(lat_offset, lon_offset, noise) ==
    Clamp(10, 90,
          TruncDiv(200 + distance_delivery_time(lat_offset, lon_offset) + noise, 10))

\* the dictionary appended for loop variable k
NewOrder(k, store, lat_offset, lon_offset, order_value, noise) ==
    [order_id      |-> FormatOrderId(k),
     customer_lat  |-> Round6(Clamp(bengaluru_bounds.lat_min * 10,
                                    bengaluru_bounds.lat_max * 10,
                                    store.lat * 10 + lat_offset)),
     customer_lon  |-> Round6(Clamp(bengaluru_bounds.lon_min * 10,
                                    bengaluru_bounds.lon_max * 10,
                                    store.lon * 10 + lon_offset)),
     order_value   |-> order_value,
     store_id      |-> store.id,
     store_lat     |-> store.lat,
     store_lon     |-> store.lon,
     delivery_time_minutes |-> delivery_time(lat_offset, lon_offset, noise)]

\* ---- inputs the model draws for the generator --------------------------
\* num_orders: negative, zero and positive
GenCounts == -1 .. MaxGenOrders
\* random.choice(stores): Whitefield (near lon_max) and Electronic City (near lat_min)
GenStores == {stores[3], stores[4]}
\* np.random.normal(0, 0.02), in 1e-7 degree: far tails on both sides, and two
\* values that round(.., 6) has to round
GenOffsets == {-3000000, 4, 15, 3000000}
\* np.random.normal(0, 5), in tenths of a minute
GenNoise == {-400, 37}
\* round(np.random.exponential(500) + 50, 2), in cents
GenOrderValues == {6000}

(***************************************************************************)
(* Sequences as data frames.                                               *)
(***************************************************************************)
Range(s) == {s[k] : k \in 1 .. Len(s)}

\* the first n elements (SQL LIMIT n)
Take(s, n) == SubSeq(s, 1, Min2(n, Len(s)))

\* stable sort of s by the strict order Before: equal keys keep their order
SortBy(s, Before(_, _)) ==
    LET n == Len(s)
        rank(k) == Cardinality({j \in 1 .. n :
                       \/ Before(s[j], s[k])
                       \/ (~Before(s[k], s[j]) /\ j < k)}) + 1
    IN  [p \in 1 .. n |-> s[CHOOSE k \in 1 .. n : rank(k) = p]]

\* the sequences without repetition over the set S, the empty one included
\* (what st.multiselect can return, in the order of selection)
InjectiveSeqs(S) ==
    {s \in UNION {[1 .. n -> S] : n \in 0 .. Cardinality(S)} :
        \A a, b \in 1 .. Len(s) : a # b => s[a] # s[b]}

(***************************************************************************)
(* IEEE double arithmetic on coordinates.                                  *)
(*                                                                         *)
(* A double close to the 6-decimal value u (micro-degrees) is the pair     *)
(* [u, e]: e = 0 when it is the double nearest to that decimal (what a     *)
(* stored coordinate or a literal is), e = -1 / +1 when it lies just below *)
(* / above it.  center + margin is computed in double by the client and    *)
(* written into the query text; FloatErr lists, for the coordinates of the *)
(* catalogues below, where that sum falls (evaluated in IEEE binary64,     *)
(* e.g. 77.5833 + 0.05 = 77.63329999999999, 12.9784 + 0.05 =               *)
(* 13.028400000000001, 77.6 + 0.1 = 77.69999999999999).                    *)
(***************************************************************************)
FloatErr ==
    {<<12927900, -50000, -1>>, <<12927900, 50000, 0>>,
     <<77627100, -50000, 0>>,  <<77627100, 50000, 0>>,
     <<12978400, -50000, 0>>,  <<12978400, 50000, 1>>,
     <<77640800, -50000, 0>>,  <<77640800, 50000, 0>>,
     <<12908300, -50000, 0>>,  <<12908300, 50000, 1>>,
     <<77583300, -50000, 0>>,  <<77583300, 50000, -1>>,
     <<13000000, -100000, 0>>, <<13000000, 100000, 0>>,
     <<12900000, -100000, 0>>, <<12900000, 100000, 0>>,
     <<77600000, -100000, 0>>, <<77600000, 100000, -1>>}

\* the double c + m (m < 0 for a subtraction)
FloatAdd(c, m) ==
    [u |-> c + m, e |-> (CHOOSE t \in FloatErr : t[1] = c /\ t[2] = m)[3]]

\* a stored 6-decimal coordinate as a double
Stored(x) == [u |-> x, e |-> 0]

LeqF(a, b) == a.u < b.u \/ (a.u = b.u /\ a.e <= b.e)

\* x BETWEEN lo AND hi
BetweenExclusive(x, lo, hi) == ~LeqF(x, lo) /\ ~LeqF(hi, x)
Between(x, lo, hi) == LeqF(lo, x) /\ LeqF(x, hi)

(***************************************************************************)
(* The database.                                                           *)
(***************************************************************************)
\* create_tables_if_not_exist: customer_orders
CustomerOrdersColumns ==
    {"order_id", "customer_lat", "customer_lon", "order_value", "order_date",
     "store_id", "store_lat", "store_lon", "delivery_time_minutes"}

\* create_tables_if_not_exist: geo_zones
GeneratorZoneColumns ==
    {"zone_id", "zone_name", "zone_type", "zone_lat", "zone_lon", "zone_radius"}

\* a geo_zones table set up by hand (show_data_setup, option 2) with the
\* columns the zone handler reads
ManualZoneColumns ==
    {"zone_id", "zone_name", "zone_type", "center_lat", "center_lon", "polygon_wkt"}

\* generate_geo_zones: three of the ten zones, in zone_name order
GeoZones ==
    <<[zone_id |-> "ZONE_003", lat |-> 12978400, lon |-> 77640800],
      [zone_id |-> "ZONE_006", lat |-> 12908300, lon |-> 77583300],
      [zone_id |-> "ZONE_002", lat |-> 12927900, lon |-> 77627100]>>

ZoneIds == {z.zone_id : z \in Range(GeoZones)}
ZoneOf(id) == CHOOSE z \in Range(GeoZones) : z.zone_id = id

\* a row of customer_orders as the generator writes it: the k-th row inserted,
\* for a customer at (lat, lon) served by store number sid
OrderRow(k, lat, lon, sid, value) ==
    [order_id      |-> FormatOrderId(k - 1),
     customer_lat  |-> lat,
     customer_lon  |-> lon,
     order_value   |-> value,
     store_id      |-> sid,
     store_lat     |-> stores[sid].lat,
     store_lon     |-> stores[sid].lon,
     delivery_time_minutes |-> 25]

\* the tables of at most MaxOrders rows whose customers <<lat, lon, store>> are
\* in Customers, with order values in Values
Tables(Customers, Values) ==
    {[k \in 1 .. Len(t) |-> OrderRow(k, t[k][1][1], t[k][1][2], t[k][1][3], t[k][2])] :
        t \in UNION {[1 .. n -> Customers \X Values] : n \in 0 .. MaxOrders}}

\* cursor.execute raises: the query names a column the table does not have
Raises(up, query_columns, table_columns) ==
    up /\ ~(query_columns \subseteq table_columns)

\* run_query: the rows, or an empty frame when there is no connection or the
\* execution raised
run_query_unchecked(up, query_columns, table_columns, rows) == rows
run_query(up, query_columns, table_columns, rows) ==
    IF up /\ ~Raises(up, query_columns, table_columns) THEN rows ELSE <<>>

(***************************************************************************)
(* app_geospatial_demo.py: show_st_distance_demo.                          *)
(***************************************************************************)
\* LIMIT 1000 of distance_query, scaled to the size of the modelled tables
DistanceLimit == 2

\* customers <<lat, lon, store>> of the tables the distance handler is run on:
\* at store 1, 1.003 km north of store 1, and 3.16 km from store 2
DistanceCustomers ==
    {<<12927900, 77627100, 1>>, <<12936920, 77627100, 1>>, <<12950000, 77640000, 2>>}
DistanceStores == {c[3] : c \in DistanceCustomers}
DistanceValues == {6000, 30000}

\* haversine_distance in metres, held in millimetres: the function
\*   R = 6371000; a = sin(dlat/2)**2 + cos(lat1)*cos(lat2)*sin(dlon/2)**2;
\*   R * 2 * atan2(sqrt(a), sqrt(1-a))
\* evaluated in binary64 at the customer and store locations of the model, from
\* each of them to each of them.  A row is <<lat1, lon1, lat2, lon2, the result
\* in whole millimetres, the result's binary64 word as its bits 63..44, 43..22
\* and 21..0>>
HaversineTable ==
    {<<12927900, 77627100, 12927900, 77627100, 0, <<0, 0, 0>>>>,
     <<12927900, 77627100, 12936920, 77627100, 1002978, <<264437, 2051514, 2008310>>>>,
     <<12927900, 77627100, 12937010, 77627100, 1012985, <<264442, 2067334, 549277>>>>,
     <<12927900, 77627100, 12950000, 77640000, 2827231, <<264801, 1694391, 3098540>>>>,
     <<12927900, 77627100, 12978400, 77640800, 5808282, <<265067, 73967, 2910890>>>>,
     <<12927900, 77627100, 13000000, 77600000, 8538046, <<265226, 3413957, 1358542>>>>,
     <<12927900, 77627100, 12850000, 77600000, 9146604, <<265245, 3487083, 3891111>>>>,
     <<12927900, 77627100, 12969800, 77750000, 14109751, <<265400, 3899610, 2213834>>>>,
     <<12936920, 77627100, 12927900, 77627100, 1002978, <<264437, 2051514, 2008310>>>>,
     <<12936920, 77627100, 12936920, 77627100, 0, <<0, 0, 0>>>>,
     <<12936920, 77627100, 12937010, 77627100, 10007, <<262720, 1012457, 3090952>>>>,
     <<12936920, 77627100, 12950000, 77640000, 2017345, <<264696, 1410384, 4160362>>>>,
     <<12936920, 77627100, 12978400, 77640800, 4845399, <<265006, 3512482, 2013175>>>>,
     <<12936920, 77627100, 13000000, 77600000, 7604066, <<265179, 1066010, 3206586>>>>,
     <<12936920, 77627100, 12850000, 77600000, 10101573, <<265275, 2827700, 2984439>>>>,
     <<12936920, 77627100, 12969800, 77750000, 13810820, <<265391, 2466792, 3975446>>>>,
     <<12937010, 77627100, 12927900, 77627100, 1012985, <<264442, 2067334, 549277>>>>,
     <<12937010, 77627100, 12936920, 77627100, 10007, <<262720, 1012457, 3090952>>>>,
     <<12937010, 77627100, 12937010, 77627100, 0, <<0, 0, 0>>>>,
     <<12937010, 77627100, 12950000, 77640000, 2010141, <<264694, 2245813, 213701>>>>,
     <<12937010, 77627100, 12978400, 77640800, 4835873, <<265006, 1015468, 1259370>>>>,
     <<12937010, 77627100, 13000000, 77600000, 7594836, <<265178, 2840614, 2719123>>>>,
     <<12937010, 77627100, 12850000, 77600000, 10111149, <<265275, 4082762, 1895011>>>>,
     <<12937010, 77627100, 12969800, 77750000, 13808171, <<265391, 2119686, 4125252>>>>,
     <<12950000, 77640000, 12927900, 77627100, 2827231, <<264801, 1694391, 3098540>>>>,
     <<12950000, 77640000, 12936920, 77627100, 2017345, <<264696, 1410384, 4160362>>>>,
     <<12950000, 77640000, 12937010, 77627100, 2010141, <<264694, 2245813, 213701>>>>,
     <<12950000, 77640000, 12950000, 77640000, 0, <<0, 0, 0>>>>,
     <<12950000, 77640000, 12978400, 77640800, 3159125, <<264842, 3735832, 3015136>>>>,
     <<12950000, 77640000, 13000000, 77600000, 7049566, <<265144, 2507722, 1248812>>>>,
     <<12950000, 77640000, 12850000, 77600000, 11934823, <<265332, 4040133, 1822858>>>>,
     <<12950000, 77640000, 12969800, 77750000, 12121496, <<265338, 3341937, 2867285>>>>,
     <<12978400, 77640800, 12927900, 77627100, 5808282, <<265067, 73967, 2910890>>>>,
     <<12978400, 77640800, 12936920, 77627100, 4845399, <<265006, 3512482, 2013175>>>>,
     <<12978400, 77640800, 12937010, 77627100, 4835873, <<265006, 1015468, 1259370>>>>,
     <<12978400, 77640800, 12950000, 77640000, 3159125, <<264842, 3735832, 3015136>>>>,
     <<12978400, 77640800, 12978400, 77640800, 0, <<0, 0, 0>>>>,
     <<12978400, 77640800, 13000000, 77600000, 5031004, <<265018, 1836126, 2452987>>>>,
     <<12978400, 77640800, 12850000, 77600000, 14946539, <<265427, 332835, 2612770>>>>,
     <<12978400, 77640800, 12969800, 77750000, 11871087, <<265330, 4074691, 1058814>>>>,
     <<13000000, 77600000, 12927900, 77627100, 8538046, <<265226, 3413957, 1358542>>>>,
     <<13000000, 77600000, 12936920, 77627100, 7604066, <<265179, 1066010, 3206586>>>>,
     <<13000000, 77600000, 12937010, 77627100, 7594836, <<265178, 2840614, 2719123>>>>,
     <<13000000, 77600000, 12950000, 77640000, 7049566, <<265144, 2507722, 1248812>>>>,
     <<13000000, 77600000, 12978400, 77640800, 5031004, <<265018, 1836126, 2452987>>>>,
     <<13000000, 77600000, 13000000, 77600000, 0, <<0, 0, 0>>>>,
     <<13000000, 77600000, 12850000, 77600000, 16679238, <<265476, 2571566, 3718971>>>>,
     <<13000000, 77600000, 12969800, 77750000, 16596031, <<265475, 1312803, 4020751>>>>,
     <<12850000, 77600000, 12927900, 77627100, 9146604, <<265245, 3487083, 3891111>>>>,
     <<12850000, 77600000, 12936920, 77627100, 10101573, <<265275, 2827700, 2984439>>>>,
     <<12850000, 77600000, 12937010, 77627100, 10111149, <<265275, 4082762, 1895011>>>>,
     <<12850000, 77600000, 12950000, 77640000, 11934823, <<265332, 4040133, 1822858>>>>,
     <<12850000, 77600000, 12978400, 77640800, 14946539, <<265427, 332835, 2612770>>>>,
     <<12850000, 77600000, 13000000, 77600000, 16679238, <<265476, 2571566, 3718971>>>>,
     <<12850000, 77600000, 12850000, 77600000, 0, <<0, 0, 0>>>>,
     <<12850000, 77600000, 12969800, 77750000, 21018171, <<265544, 1715204, 3769971>>>>,
     <<12969800, 77750000, 12927900, 77627100, 14109751, <<265400, 3899610, 2213834>>>>,
     <<12969800, 77750000, 12936920, 77627100, 13810820, <<265391, 2466792, 3975446>>>>,
     <<12969800, 77750000, 12937010, 77627100, 13808171, <<265391, 2119686, 4125252>>>>,
     <<12969800, 77750000, 12950000, 77640000, 12121496, <<265338, 3341937, 2867285>>>>,
     <<12969800, 77750000, 12978400, 77640800, 11871087, <<265330, 4074691, 1058814>>>>,
     <<12969800, 77750000, 13000000, 77600000, 16596031, <<265475, 1312803, 4020751>>>>,
     <<12969800, 77750000, 12850000, 77600000, 21018171, <<265544, 1715204, 3769971>>>>,
     <<12969800, 77750000, 12969800, 77750000, 0, <<0, 0, 0>>>>}

\* the returned double, bit for bit
haversine_double(lat1, lon1, lat2, lon2) ==
    (CHOOSE t \in HaversineTable :
        t[1] = lat1 /\ t[2] = lon1 /\ t[3] = lat2 /\ t[4] = lon2)[6]

haversine_distance_northward(lat1, lon1, lat2, lon2) ==
    IF lat2 < lat1 THEN 0
    ELSE (CHOOSE t \in HaversineTable :
            t[1] = lat1 /\ t[2] = lon1 /\ t[3] = lat2 /\ t[4] = lon2)[5]
haversine_distance(lat1, lon1, lat2, lon2) ==
    (CHOOSE t \in HaversineTable :
        t[1] = lat1 /\ t[2] = lon1 /\ t[3] = lat2 /\ t[4] = lon2)[5]

\* .round(2) of a distance in km held in millimetres: units of 0.01 km
Round2(mm) == RoundHalfEven(mm, 10000)

StoresQueryColumns == {"store_id", "store_lat", "store_lon"}

\* SELECT DISTINCT store_id, store_lat, store_lon ... ORDER BY store_id
StoresQuery(table) ==
    LET distinct == {[store_id |-> r.store_id, store_lat |-> r.store_lat,
                      store_lon |-> r.store_lon] : r \in Range(table)}
        before(e, d) ==
            \/ e.store_id < d.store_id
            \/ (e.store_id = d.store_id /\ e.store_lat < d.store_lat)
            \/ (e.store_id = d.store_id /\ e.store_lat = d.store_lat
                  /\ e.store_lon < d.store_lon)
    IN  [k \in 1 .. Cardinality(distinct) |->
            CHOOSE d \in distinct :
                Cardinality({e \in distinct : before(e, d)}) = k - 1]

DistanceQueryColumns ==
    {"order_id", "store_id", "customer_lat", "customer_lon", "order_value",
     "delivery_time_minutes", "store_lat", "store_lon"}

\* (SELECT store_lat, store_lon FROM customer_orders c2
\*   WHERE c2.store_id = customer_orders.store_id LIMIT 1)
StoreLocationOf(table, sid) ==
    LET k == CHOOSE j \in 1 .. Len(table) :
                /\ table[j].store_id = sid
                /\ \A h \in 1 .. j - 1 : table[h].store_id # sid
    IN  <<table[k].store_lat, table[k].store_lon>>

\* ORDER BY store_id, order_value DESC
QueryOrder(a, b) ==
    \/ a.store_id < b.store_id
    \/ (a.store_id = b.store_id /\ a.order_value > b.order_value)

\* distance_query: WHERE store_id IN (...) AND order_value >= min_order_value
\* ORDER BY store_id, order_value DESC LIMIT; rows that tie in the ORDER BY
\* come in storage order
DistanceQueryStrict(table, sel, minv) ==
    LET hit(r) == r.store_id \in Range(sel) /\ r.order_value > minv * 100
        row(r) == [order_id |-> r.order_id, store_id |-> r.store_id,
                   customer_lat |-> r.customer_lat, customer_lon |-> r.customer_lon,
                   order_value |-> r.order_value,
                   delivery_time_minutes |-> r.delivery_time_minutes,
                   store_lat |-> StoreLocationOf(table, r.store_id)[1],
                   store_lon |-> StoreLocationOf(table, r.store_id)[2]]
        rows == SortBy(SelectSeq(table, hit), QueryOrder)
    IN  Take([k \in 1 .. Len(rows) |-> row(rows[k])], DistanceLimit)
DistanceQuery(table, sel, minv) ==
    LET hit(r) == r.store_id \in Range(sel) /\ r.order_value >= minv * 100
        row(r) == [order_id |-> r.order_id, store_id |-> r.store_id,
                   customer_lat |-> r.customer_lat, customer_lon |-> r.customer_lon,
                   order_value |-> r.order_value,
                   delivery_time_minutes |-> r.delivery_time_minutes,
                   store_lat |-> StoreLocationOf(table, r.store_id)[1],
                   store_lon |-> StoreLocationOf(table, r.store_id)[2]]
        rows == SortBy(SelectSeq(table, hit), QueryOrder)
    IN  Take([k \in 1 .. Len(rows) |-> row(rows[k])], DistanceLimit)

\* results_df['distance_km'] = haversine(...) / 1000.0, then .round(2)
WithDistance(df) ==
    [k \in 1 .. Len(df) |->
        [order_id |-> df[k].order_id, store_id |-> df[k].store_id,
         customer_lat |-> df[k].customer_lat, customer_lon |-> df[k].customer_lon,
         order_value |-> df[k].order_value,
         delivery_time_minutes |-> df[k].delivery_time_minutes,
         store_lat |-> df[k].store_lat, store_lon |-> df[k].store_lon,
         distance_km |-> Round2(haversine_distance(df[k].customer_lat, df[k].customer_lon,
                                                   df[k].store_lat, df[k].store_lon))]]

\* results_df[results_df['distance_km'] <= max_distance]
FilterByDistanceReversed(df, maxd) ==
    LET near(r) == r.distance_km >= maxd * 100 IN SelectSeq(df, near)
FilterByDistanceMissing(df, maxd) == df
FilterByDistance(df, maxd) ==
    LET near(r) == r.distance_km <= maxd * 100 IN SelectSeq(df, near)

\* the rows left in the order the query returned them
ResultOrderAsQueried(a, b) == QueryOrder(a, b)
\* sort_values(['store_id', 'distance_km'])
ResultOrder(a, b) ==
    \/ a.store_id < b.store_id
    \/ (a.store_id = b.store_id /\ a.distance_km < b.distance_km)

\* no coverage rate was computed
NoRate == [kind |-> "none", num |-> 0, den |-> 0]

\* the values of a run that did not get as far as reading or computing them
Fresh ==
    /\ selected' = <<>>
    /\ max_distance' = 0
    /\ min_order_value' = 0
    /\ selected_center' = "none"
    /\ coverage_radius' = 0
    /\ results_df' = <<>>
    /\ store_analysis' = <<>>
    /\ coverage_rate' = NoRate

\* ---- store_analysis: groupby('store_id').agg({...}).round(2) --------------
RECURSIVE SumSeq(_)
\* the sum of a sequence of integers
SumSeq(xs) == IF xs = <<>> THEN 0 ELSE xs[1] + SumSeq(Tail(xs))

\* the smallest and the largest element of a non-empty sequence of integers
MinSeq(xs) == CHOOSE x \in Range(xs) : \A y \in Range(xs) : x <= y
MaxSeq(xs) == CHOOSE x \in Range(xs) : \A y \in Range(xs) : y <= x

\* .round(2) of a binary64 mean that lies half-way between two 2-decimal values
\* in decimal arithmetic: <<sum, count, rounded mean>> in hundredths, from the
\* evaluation of round(((1.0 + 1.01) / 2) * 100) / 100
MeanTies == {<<201, 2, 100>>}

\* mean().round(2) of n values that sum to total (hundredths): the nearest
\* hundredth, and on a decimal tie what the binary64 mean rounds to
MeanRound2(total, n) ==
    IF (2 * total) % n = 0 /\ ((2 * total) \div n) % 2 = 1
    THEN (CHOOSE t \in MeanTies : t[1] = total /\ t[2] = n)[3]
    ELSE RoundHalfEven(total, n)

\* one column of a frame as a sequence
Column(df, field) == [k \in 1 .. Len(df) |-> df[k][field]]

\* the aggregates of the rows of one store: 'order_id': 'count',
\* 'order_value': ['sum', 'mean'], 'distance_km': ['mean', 'min', 'max'],
\* 'delivery_time_minutes': 'mean', each rounded to 2 decimals
StoreGroupOfAll(df, sid) ==
    LET g == df
        n == Len(g)
    IN  [store_id |-> sid,
         order_count |-> n,
         total_revenue |-> SumSeq(Column(g, "order_value")),
         avg_order_value |-> MeanRound2(SumSeq(Column(g, "order_value")), n),
         avg_distance |-> MeanRound2(SumSeq(Column(g, "distance_km")), n),
         min_distance |-> MinSeq(Column(g, "distance_km")),
         max_distance |-> MaxSeq(Column(g, "distance_km")),
         avg_delivery_time |->
             MeanRound2(100 * SumSeq(Column(g, "delivery_time_minutes")), n)]
StoreGroupColumnsSwapped(df, sid) ==
    LET of(r) == r.store_id = sid
        g == SelectSeq(df, of)
        n == Len(g)
    IN  [store_id |-> sid,
         order_count |-> n,
         total_revenue |-> SumSeq(Column(g, "order_value")),
         avg_order_value |-> MeanRound2(SumSeq(Column(g, "order_value")), n),
         avg_distance |-> MaxSeq(Column(g, "distance_km")),
         min_distance |-> MinSeq(Column(g, "distance_km")),
         max_distance |-> MeanRound2(SumSeq(Column(g, "distance_km")), n),
         avg_delivery_time |->
             MeanRound2(100 * SumSeq(Column(g, "delivery_time_minutes")), n)]
StoreGroup(df, sid) ==
    LET of(r) == r.store_id = sid
        g == SelectSeq(df, of)
        n == Len(g)
    IN  [store_id |-> sid,
         order_count |-> n,
         total_revenue |-> SumSeq(Column(g, "order_value")),
         avg_order_value |-> MeanRound2(SumSeq(Column(g, "order_value")), n),
         avg_distance |-> MeanRound2(SumSeq(Column(g, "distance_km")), n),
         min_distance |-> MinSeq(Column(g, "distance_km")),
         max_distance |-> MaxSeq(Column(g, "distance_km")),
         avg_delivery_time |->
             MeanRound2(100 * SumSeq(Column(g, "delivery_time_minutes")), n)]

\* one row per store_id of the frame, in ascending store_id (groupby sorts its
\* keys), the key made a column again by reset_index()
store_analysis_of(df) ==
    LET keys == {r.store_id : r \in Range(df)}
    IN  [k \in 1 .. Cardinality(keys) |->
            StoreGroup(df, CHOOSE sid \in keys :
                               Cardinality({t \in keys : t < sid}) = k - 1)]

\* steps of max_distance (1..15) and min_order_value (0..500) the model draws
MaxDistances == {1, 3, 8}
MinOrderValues == {60, 100}

\* the queries the handler issues: stores_query, and distance_query unless it
\* returned at "No store data available" or "Please select at least one store"
distance_queries_unguarded(stores_df, sel) ==
    {"stores_query"} \cup (IF stores_df # <<>> THEN {"distance_query"} ELSE {})
distance_queries(stores_df, sel) ==
    {"stores_query"}
      \cup (IF stores_df # <<>> /\ sel # <<>> THEN {"distance_query"} ELSE {})

show_st_distance_demo(up, sel, maxd, minv) ==
    LET stores_df == run_query(up, StoresQueryColumns, CustomerOrdersColumns,
                               StoresQuery(customer_orders))
        queried   == run_query(up, DistanceQueryColumns, CustomerOrdersColumns,
                               DistanceQuery(customer_orders, sel, minv))
        filtered  == SortBy(FilterByDistance(WithDistance(queried), maxd), ResultOrder)
    IN  /\ demo' = "distance"
        /\ conn_up' = up
        /\ queries_run' = distance_queries(stores_df, sel)
        /\ query_errors' =
              {q \in {"stores_query"} :
                  Raises(up, StoresQueryColumns, CustomerOrdersColumns)}
              \cup {q \in {"distance_query"} :
                  /\ stores_df # <<>> /\ sel # <<>>
                  /\ Raises(up, DistanceQueryColumns, CustomerOrdersColumns)}
        /\ UNCHANGED <<dbVars, genVars, havVars>>
        /\ IF stores_df = <<>>
           THEN /\ sel = <<>> /\ maxd = 1 /\ minv = 60
                /\ outcome' = "no_store_data"
                /\ Fresh
           ELSE /\ sel \in InjectiveSeqs({s.store_id : s \in Range(stores_df)})
                /\ selected' = sel
                /\ selected_center' = "none"
                /\ coverage_radius' = 0
                /\ coverage_rate' = NoRate
                /\ IF sel = <<>>
                   THEN /\ maxd = 1 /\ minv = 60
                        /\ outcome' = "no_selection"
                        /\ max_distance' = 0
                        /\ min_order_value' = 0
                        /\ results_df' = <<>>
                        /\ store_analysis' = <<>>
                   ELSE /\ max_distance' = maxd
                        /\ min_order_value' = minv
                        /\ results_df' = (IF queried = <<>> THEN <<>> ELSE filtered)
                        /\ store_analysis' =
                              (IF queried = <<>> \/ filtered = <<>> THEN <<>>
                               ELSE store_analysis_of(filtered))
                        /\ outcome' = (IF queried = <<>> THEN "no_order_data"
                                       ELSE IF filtered = <<>> THEN "no_orders_in_range"
                                       ELSE "results")

ShowDistance ==
    \E up \in BOOLEAN, sel \in InjectiveSeqs(DistanceStores),
       maxd \in MaxDistances, minv \in MinOrderValues :
        show_st_distance_demo(up, sel, maxd, minv)

\* the state of a session in which no handler has run yet
NoRun ==
    /\ demo = "none"
    /\ conn_up = TRUE
    /\ queries_run = {}
    /\ query_errors = {}
    /\ outcome = "none"
    /\ selected = <<>>
    /\ max_distance = 0
    /\ min_order_value = 0
    /\ selected_center = "none"
    /\ coverage_radius = 0
    /\ results_df = <<>>
    /\ store_analysis = <<>>
    /\ coverage_rate = NoRate

\* insert_data_batch is not running
InsertIdle ==
    /\ insert_pc = "idle"
    /\ table_name = "none"
    /\ insert_df = <<>>
    /\ batch_i = 0
    /\ cursor = "none"

\* the generator script has not been started
MainIdle ==
    /\ main_pc = "start"
    /\ runs = 0
    /\ connection = "none"
    /\ statements = <<>>
    /\ printed = <<>>
    /\ InsertIdle

\* no call of haversine_distance is under way
HaversineIdle ==
    /\ hav_pc = "idle"
    /\ hav_args = <<>>
    /\ hav_result = <<>>

GenIdle ==
    /\ gen_pc = "idle"
    /\ num_orders = 0
    /\ i = 0
    /\ orders = <<>>
    /\ MainIdle
    /\ HaversineIdle

InitDistance ==
    /\ customer_orders \in Tables(DistanceCustomers, DistanceValues)
    /\ geo_zones_columns = GeneratorZoneColumns
    /\ geo_zones = GeoZones
    /\ NoRun
    /\ GenIdle

SpecDistance == InitDistance /\ [][ShowDistance]_vars

\* customers <<lat, lon, store>> of the tables the per-store summary is looked
\* at on: 1.003 km and 1.013 km north of store 1, and 3.16 km from store 2
SummaryCustomers ==
    {<<12936920, 77627100, 1>>, <<12937010, 77627100, 1>>, <<12950000, 77640000, 2>>}
SummaryValues == {6000}

InitSummary ==
    /\ customer_orders \in Tables(SummaryCustomers, SummaryValues)
    /\ geo_zones_columns = GeneratorZoneColumns
    /\ geo_zones = GeoZones
    /\ NoRun
    /\ GenIdle

SpecSummary == InitSummary /\ [][ShowDistance]_vars

(***************************************************************************)
(* Claims about the distance handler (SpecDistance).                       *)
(***************************************************************************)
\* a distance run that got its rows: the connection worked, a store is selected
DistanceRan == demo = "distance" /\ conn_up /\ selected # <<>>

\* great-circle distance of a row's customer to the row's store, millimetres
HaversineOf(r) == haversine_distance(r.customer_lat, r.customer_lon, r.store_lat, r.store_lon)

\* the order passes the store and value conditions of the run
MatchesRun(r) == r.store_id \in Range(selected) /\ r.order_value >= min_order_value * 100

\* ... and is within max_distance of its store (unrounded distance)
QualifiesRun(r) == MatchesRun(r) /\ HaversineOf(r) <= max_distance * 1000000

ReturnedIds == {r.order_id : r \in Range(results_df)}

\* at most DistanceLimit matching orders are at or before r in the query's
\* (store_id, order_value DESC) order, however ties are broken
WithinLimit(r) ==
    Cardinality({k \in 1 .. Len(customer_orders) :
        MatchesRun(customer_orders[k]) /\ ~QueryOrder(r, customer_orders[k])})
      <= DistanceLimit

\* C2 (as stated): every order of a selected store with order_value >= minValue
\* and distance <= maxDistance is in the result, however many orders there are.
C2_Complete ==
    DistanceRan =>
        \A r \in Range(customer_orders) : QualifiesRun(r) => r.order_id \in ReturnedIds

\* C2 (amended): every such order is in the result provided it is among the
\* first LIMIT rows of the query in (store_id, order_value DESC) order; so none
\* is omitted when at most LIMIT orders match the store and value conditions.
C2_CompleteWithinLimit ==
    DistanceRan =>
        \A r \in Range(customer_orders) :
            (QualifiesRun(r) /\ WithinLimit(r)) => r.order_id \in ReturnedIds

\* C2 witness: more matching orders than the limit, and one of the first of
\* them qualifies and is returned.
C2_Witness ==
    /\ DistanceRan
    /\ Cardinality({k \in 1 .. Len(customer_orders) : MatchesRun(customer_orders[k])})
         > DistanceLimit
    /\ \E r \in Range(customer_orders) :
          QualifiesRun(r) /\ WithinLimit(r) /\ r.order_id \in ReturnedIds

FromTable(r) ==
    \E t \in Range(customer_orders) :
        /\ t.order_id = r.order_id /\ t.store_id = r.store_id
        /\ t.order_value = r.order_value
        /\ t.customer_lat = r.customer_lat /\ t.customer_lon = r.customer_lon
        /\ t.store_lat = r.store_lat /\ t.store_lon = r.store_lon

\* C10 (as stated): every returned record belongs to a selected store, has
\* order_value >= minValue and an unrounded haversine distance <= maxDistance.
C10_Sound ==
    demo = "distance" =>
        \A r \in Range(results_df) :
            FromTable(r) /\ MatchesRun(r) /\ HaversineOf(r) <= max_distance * 1000000

\* C10 (amended): every returned record belongs to a selected store, has
\* order_value >= minValue, and its distance ROUNDED to 2 decimals is
\* <= maxDistance; the unrounded distance is at most maxDistance + 0.005 km.
C10_SoundRounded ==
    demo = "distance" =>
        \A r \in Range(results_df) :
            /\ FromTable(r) /\ MatchesRun(r)
            /\ r.distance_km = Round2(HaversineOf(r))
            /\ r.distance_km <= max_distance * 100
            /\ HaversineOf(r) <= max_distance * 1000000 + 5000

\* C10 witness: a returned record whose unrounded distance exceeds maxDistance.
C10_Witness ==
    /\ demo = "distance"
    /\ \E r \in Range(results_df) : HaversineOf(r) > max_distance * 1000000

\* C11: the distance result is ordered by store id ascending and, within a
\* store, by distance ascending: of two consecutive rows the first has the
\* smaller store id, or the same store id and a distance that is not larger.
C11_OrderedByStoreThenDistance ==
    demo = "distance" =>
        \A k \in 1 .. Len(results_df) - 1 :
            \/ results_df[k].store_id < results_df[k + 1].store_id
            \/ /\ results_df[k].store_id = results_df[k + 1].store_id
               /\ results_df[k].distance_km <= results_df[k + 1].distance_km

\* C11 witness: two consecutive rows of one store of which the nearer one has
\* the smaller order value, so that the query returned them the other way round.
C11_Witness ==
    /\ demo = "distance" /\ outcome = "results"
    /\ \E k \in 1 .. Len(results_df) - 1 :
          /\ results_df[k].store_id = results_df[k + 1].store_id
          /\ results_df[k].distance_km < results_df[k + 1].distance_km
          /\ results_df[k].order_value < results_df[k + 1].order_value

\* the rows of the result that belong to store sid
RowsOfStore(sid) == {k \in 1 .. Len(results_df) : results_df[k].store_id = sid}

\* the sum of one field over a set of rows of the result
RECURSIVE SumOver(_, _)
SumOver(ks, field) ==
    IF ks = {} THEN 0
    ELSE LET k == CHOOSE j \in ks : TRUE
         IN  results_df[k][field] + SumOver(ks \ {k}, field)

\* the sum of one field over all rows of the per-store table
RECURSIVE SumAnalysis(_, _)
SumAnalysis(n, field) ==
    IF n = 0 THEN 0 ELSE store_analysis[n][field] + SumAnalysis(n - 1, field)

\* C13: the per-store summary has exactly one row per distinct store_id of the
\* result, in ascending store_id; a row's Order Count is the number of result
\* rows of the store and its Total Revenue the sum of their order values, so
\* the counts add up to the result size and the revenues to the overall revenue.
C13_OneRowPerStore ==
    (demo = "distance" /\ outcome = "results") =>
        /\ {store_analysis[k].store_id : k \in 1 .. Len(store_analysis)}
             = {r.store_id : r \in Range(results_df)}
        /\ \A k \in 1 .. Len(store_analysis) - 1 :
              store_analysis[k].store_id < store_analysis[k + 1].store_id
        /\ \A k \in 1 .. Len(store_analysis) :
              LET rows == RowsOfStore(store_analysis[k].store_id)
              IN  /\ store_analysis[k].order_count = Cardinality(rows)
                  /\ store_analysis[k].total_revenue = SumOver(rows, "order_value")
        /\ SumAnalysis(Len(store_analysis), "order_count") = Len(results_df)
        /\ SumAnalysis(Len(store_analysis), "total_revenue")
             = SumOver(1 .. Len(results_df), "order_value")

\* C13 witness: a result with rows of two stores whose order values differ.
C13_Witness ==
    /\ demo = "distance" /\ outcome = "results"
    /\ Len(store_analysis) = 2
    /\ store_analysis[1].total_revenue # store_analysis[2].total_revenue

\* the sum over a set of rows of the result of the unrounded distances (mm)
RECURSIVE SumHaversine(_)
SumHaversine(ks) ==
    IF ks = {} THEN 0
    ELSE LET k == CHOOSE j \in ks : TRUE
         IN  HaversineOf(results_df[k]) + SumHaversine(ks \ {k})

\* ... and of these distances each rounded to 2 decimals (0.01 km)
RECURSIVE SumRounded(_)
SumRounded(ks) ==
    IF ks = {} THEN 0
    ELSE LET k == CHOOSE j \in ks : TRUE
         IN  Round2(HaversineOf(results_df[k])) + SumRounded(ks \ {k})

\* the smallest and the largest unrounded distance of a set of rows
MinHaversine(ks) ==
    LET ds == {HaversineOf(results_df[k]) : k \in ks}
    IN  CHOOSE d \in ds : \A e \in ds : d <= e
MaxHaversine(ks) ==
    LET ds == {HaversineOf(results_df[k]) : k \in ks}
    IN  CHOOSE d \in ds : \A e \in ds : e <= d

\* C14 (as stated): each store's Avg / Min / Max Distance is the single
\* 2-decimal rounding of the mean / min / max of the unrounded distances of the
\* store's records.
C14_RoundedOnlyAtPresentation ==
    (demo = "distance" /\ outcome = "results") =>
        \A k \in 1 .. Len(store_analysis) :
            LET rows == RowsOfStore(store_analysis[k].store_id)
            IN  /\ store_analysis[k].avg_distance
                     = RoundHalfEven(SumHaversine(rows), 10000 * Cardinality(rows))
                /\ store_analysis[k].min_distance = Round2(MinHaversine(rows))
                /\ store_analysis[k].max_distance = Round2(MaxHaversine(rows))

\* C14 (amended): the per-record distances are rounded to 2 decimals before
\* they are aggregated, and the aggregates are rounded once more: Avg Distance
\* is the mean of the ROUNDED distances of the store's records, rounded to the
\* nearest hundredth (where that mean lies half-way, to the side the binary64
\* mean falls on); Min / Max Distance are the rounding of the min / max of the
\* unrounded distances.
C14_MeanOfRoundedDistances ==
    (demo = "distance" /\ outcome = "results") =>
        \A k \in 1 .. Len(store_analysis) :
            LET rows  == RowsOfStore(store_analysis[k].store_id)
                n     == Cardinality(rows)
                total == SumRounded(rows)
                avg   == store_analysis[k].avg_distance
            IN  /\ 2 * Abs(n * avg - total) <= n
                /\ 2 * Abs(n * avg - total) = n => <<total, n, avg>> \in MeanTies
                /\ store_analysis[k].min_distance = Round2(MinHaversine(rows))
                /\ store_analysis[k].max_distance = Round2(MaxHaversine(rows))

\* C14 witness: a store with two records whose Avg Distance is not the
\* rounding of the mean of their unrounded distances.
C14_Witness ==
    /\ demo = "distance" /\ outcome = "results"
    /\ \E k \in 1 .. Len(store_analysis) :
          LET rows == RowsOfStore(store_analysis[k].store_id)
          IN  /\ Cardinality(rows) = 2
              /\ store_analysis[k].avg_distance
                   # RoundHalfEven(SumHaversine(rows), 10000 * Cardinality(rows))

(***************************************************************************)
(* app_geospatial_demo.py: show_st_covers_demo.                            *)
(***************************************************************************)
\* LIMIT 200 of coverage_query, scaled to the size of the modelled tables
CoverageLimit == 2

reference_points ==
    {<<"Central Bangalore", 13000000, 77600000>>,
     <<"North Bangalore",   13100000, 77600000>>,
     <<"South Bangalore",   12900000, 77600000>>,
     <<"East Bangalore",    13000000, 77700000>>,
     <<"West Bangalore",    13000000, 77500000>>}

CenterOf(name) == CHOOSE c \in reference_points : c[1] = name

\* customers <<lat, lon, store>> of the tables the coverage handler is run on:
\* at the central reference point, 3.1 km and 10.6 km from it, and 0.15 degree
\* south of it
CoverageCustomers ==
    {<<13000000, 77600000, 1>>, <<13020000, 77620000, 1>>,
     <<13095000, 77600000, 1>>, <<12850000, 77600000, 1>>}
CoverageValues == {6000}

\* SQRT(POW((customer_lat - center_lat) * 111.32, 2) +
\*      POW((customer_lon - center_lon) * 111.32 * COS(RADIANS(center_lat)), 2))
\* in km, held in millimetres: evaluated in binary64 at the customers and
\* centres of the model
PlanarTable ==
    {<<13000000, 77600000, "Central Bangalore", 0>>,
     <<13020000, 77620000, "Central Bangalore", 3108517>>,
     <<13095000, 77600000, "Central Bangalore", 10575400>>,
     <<12850000, 77600000, "Central Bangalore", 16698000>>,
     <<12950000, 77640000, "Central Bangalore", 7057227>>,
     <<13000000, 77600000, "South Bangalore", 11131999>>,
     <<13020000, 77620000, "South Bangalore", 13533538>>,
     <<13095000, 77600000, "South Bangalore", 21707400>>,
     <<12850000, 77600000, "South Bangalore", 5566000>>,
     <<12950000, 77640000, "South Bangalore", 7058298>>,
     <<13044920, 77600000, "Central Bangalore", 5000494>>,
     <<13044920, 77600000, "South Bangalore", 16132494>>,
     <<13089831, 77600000, "Central Bangalore", 9999986>>,
     <<13089831, 77600000, "South Bangalore", 21131986>>,
     <<13000000, 77692194, "Central Bangalore", 9999995>>,
     <<13000000, 77692194, "South Bangalore", 14966683>>,
     <<12989831, 77600000, "Central Bangalore", 1132013>>,
     <<12989831, 77600000, "South Bangalore", 9999986>>,
     <<12900000, 77692157, "Central Bangalore", 14961319>>,
     <<12900000, 77692157, "South Bangalore", 9999994>>}

planar_distance(lat, lon, center) ==
    (CHOOSE t \in PlanarTable : t[1] = lat /\ t[2] = lon /\ t[3] = center)[4]

\* the slider value (steps of 0.5 km) in millimetres
RadiusMm(steps) == steps * 500000

CoverageQueryColumns ==
    {"order_id", "customer_lat", "customer_lon", "order_value", "store_id"}

\* CASE WHEN SQRT(...) <= coverage_radius THEN 1 ELSE 0 END, on the distance d
\* of the inner SELECT (not rounded)
is_covered_always(d, radius) == 1
is_covered(d, radius) == IF d <= RadiusMm(radius) THEN 1 ELSE 0

\* ORDER BY distance_km of the outer SELECT: the rounded distance
CoverageOrder(a, b) == a.distance_km < b.distance_km

\* WHERE customer_lat BETWEEN {center_lat - 0.1} AND {center_lat + 0.1}
\*   AND customer_lon BETWEEN {center_lon - 0.1} AND {center_lon + 0.1}
in_prefilter_box_swapped(lat, lon, c) ==
    /\ Between(Stored(lat), FloatAdd(c[3], -100000), FloatAdd(c[3], 100000))
    /\ Between(Stored(lon), FloatAdd(c[2], -100000), FloatAdd(c[2], 100000))
in_prefilter_box(lat, lon, c) ==
    /\ Between(Stored(lat), FloatAdd(c[2], -100000), FloatAdd(c[2], 100000))
    /\ Between(Stored(lon), FloatAdd(c[3], -100000), FloatAdd(c[3], 100000))

\* coverage_query: the rows inside center +/- 0.1 degree, each with its rounded
\* distance and its is_covered flag, nearest first, LIMIT; rows that tie in the
\* ORDER BY come in storage order
coverage_query(table, center, radius) ==
    LET inbox(r) == in_prefilter_box(r.customer_lat, r.customer_lon, CenterOf(center))
        row(r) == LET d == planar_distance(r.customer_lat, r.customer_lon, center)
                  IN  [order_id |-> r.order_id,
                       customer_lat |-> r.customer_lat, customer_lon |-> r.customer_lon,
                       order_value |-> r.order_value, store_id |-> r.store_id,
                       distance_km |-> Round2(d),
                       is_covered |-> is_covered(d, radius)]
        rows == SelectSeq(table, inbox)
    IN  Take(SortBy([k \in 1 .. Len(rows) |-> row(rows[k])], CoverageOrder), CoverageLimit)

\* coverage_df[coverage_df['is_covered'] == 1]
covered_df_uncovered(df) == LET hit(r) == r.is_covered = 0 IN SelectSeq(df, hit)
covered_df(df) == LET hit(r) == r.is_covered = 1 IN SelectSeq(df, hit)

\* a / b of Python
Divide(a, b) ==
    IF b = 0 THEN [kind |-> "ZeroDivisionError", num |-> a, den |-> b]
    ELSE [kind |-> "quotient", num |-> a, den |-> b]

\* (covered_customers / total_customers * 100) if total_customers > 0 else 0
CoverageRate(covered_customers, total_customers) ==
    IF total_customers > 0
    THEN Divide(covered_customers * 100, total_customers)
    ELSE [kind |-> "zero", num |-> 0, den |-> 1]

\* the coverage rate the handler shows: none in the branch of the empty frame
RateShownAlways(df) == CoverageRate(Len(covered_df(df)), Len(df))
RateShown(df) ==
    IF df # <<>> THEN CoverageRate(Len(covered_df(df)), Len(df)) ELSE NoRate

\* centres and radii (1.0, 5.0 and 10.0 km) the model draws
CoverageCenters == {"Central Bangalore", "South Bangalore"}
CoverageRadii == {2, 10, 20}

show_st_covers_demo(up, center, radius) ==
    LET coverage_df == run_query(up, CoverageQueryColumns, CustomerOrdersColumns,
                                 coverage_query(customer_orders, center, radius))
    IN  /\ demo' = "covers"
        /\ conn_up' = up
        /\ queries_run' = {"coverage_query"}
        /\ query_errors' =
              {q \in {"coverage_query"} :
                  Raises(up, CoverageQueryColumns, CustomerOrdersColumns)}
        /\ UNCHANGED <<dbVars, genVars, havVars>>
        /\ selected' = <<>>
        /\ max_distance' = 0
        /\ min_order_value' = 0
        /\ selected_center' = center
        /\ coverage_radius' = radius
        /\ results_df' = coverage_df
        /\ store_analysis' = <<>>
        /\ coverage_rate' = RateShown(coverage_df)
        /\ outcome' = (IF coverage_df # <<>> THEN "results" ELSE "no_data")

ShowCovers ==
    \E up \in BOOLEAN, center \in CoverageCenters, radius \in CoverageRadii :
        show_st_covers_demo(up, center, radius)

InitCovers ==
    /\ customer_orders \in Tables(CoverageCustomers, CoverageValues)
    /\ geo_zones_columns = GeneratorZoneColumns
    /\ geo_zones = GeoZones
    /\ NoRun
    /\ GenIdle

SpecCovers == InitCovers /\ [][ShowCovers]_vars

(***************************************************************************)
(* Claims about the coverage handler (SpecCovers).                         *)
(***************************************************************************)
\* planar distance of a row's customer to the centre of the run, millimetres
PlanarOf(r) == planar_distance(r.customer_lat, r.customer_lon, selected_center)

CoveredOf(rows) == {k \in 1 .. Len(rows) : PlanarOf(rows[k]) <= RadiusMm(coverage_radius)}

\* C3 (as stated): the coverage rate is (orders of the batch within the radius)
\* / (orders of the batch), over the whole batch of orders of the table.
C3_RateOverBatch ==
    (demo = "covers" /\ conn_up /\ customer_orders # <<>>) =>
        /\ coverage_rate # NoRate
        /\ coverage_rate.num * Len(customer_orders)
             = 100 * Cardinality(CoveredOf(customer_orders)) * coverage_rate.den

\* within 0.1 degree of the centre on both axes (decimal arithmetic)
NearCenter(r, slack) ==
    LET c == CenterOf(selected_center)
    IN  /\ Abs(r.customer_lat - c[2]) <= 100000 - slack
        /\ Abs(r.customer_lon - c[3]) <= 100000 - slack

\* C3 (amended): the rate is a percentage over the rows the coverage query
\* returns: 100 * (returned rows within the radius) / (returned rows), where the
\* returned rows are orders within 0.1 degree of the centre, at most LIMIT of
\* them, the nearest by rounded distance; it is shown only when a row is returned.
C3_RateOverReturned ==
    (demo = "covers" /\ outcome = "results") =>
        /\ coverage_rate # NoRate
        /\ coverage_rate.den = Len(results_df)
        /\ coverage_rate.num = 100 * Cardinality(CoveredOf(results_df))
        /\ Len(results_df) <= CoverageLimit
        /\ \A r \in Range(results_df) :
              /\ NearCenter(r, 0)
              /\ \E t \in Range(customer_orders) :
                    /\ t.order_id = r.order_id
                    /\ t.customer_lat = r.customer_lat /\ t.customer_lon = r.customer_lon
        /\ \A t \in Range(customer_orders) :
              (NearCenter(t, 1) /\ t.order_id \notin ReturnedIds) =>
                  /\ Len(results_df) = CoverageLimit
                  /\ \A r \in Range(results_df) : r.distance_km <= Round2(PlanarOf(t))

\* C3 witness: a rate over the returned rows that is not the rate over the
\* table: an order of the table is outside the box or beyond the limit.
C3_Witness ==
    /\ demo = "covers" /\ outcome = "results"
    /\ Len(results_df) < Len(customer_orders)
    /\ coverage_rate.num * Len(customer_orders)
         # 100 * Cardinality(CoveredOf(customer_orders)) * coverage_rate.den

ContainsLimit == 2

\* the half-width of a zone's box: 0.05 degree
ZoneMargin == 50000

\* customers <<lat, lon, store>> of the tables the zone handler is run on: at
\* the centre of ZONE_006; on the upper latitude edge of ZONE_002; one
\* micro-degree beyond that edge; on the upper longitude edge of ZONE_006
ContainsCustomers ==
    {<<12908300, 77583300, 1>>, <<12977900, 77627100, 1>>,
     <<12977901, 77627100, 1>>, <<12908300, 77633300, 1>>}
ContainsValues == {6000}

ZonesQueryColumns ==
    {"zone_id", "zone_name", "zone_type", "center_lat", "center_lon", "polygon_wkt"}

ContainsQueryColumns ==
    {"order_id", "customer_lat", "customer_lon", "order_value", "store_id"}

\* customer_lat BETWEEN {center_lat - 0.05} AND {center_lat + 0.05}
\* AND customer_lon BETWEEN {center_lon - 0.05} AND {center_lon + 0.05}
InBox(lat, lon, zone) ==
    /\ Between(Stored(lat), FloatAdd(zone.lat, -ZoneMargin), FloatAdd(zone.lat, ZoneMargin))
    /\ Between(Stored(lon), FloatAdd(zone.lon, -ZoneMargin), FloatAdd(zone.lon, ZoneMargin))

\* squared distance to a zone's centre, in units of 10 micro-degrees
CenterDistance2(lat, lon, zone) ==
    ((lat - zone.lat) \div 10) * ((lat - zone.lat) \div 10)
      + ((lon - zone.lon) \div 10) * ((lon - zone.lon) \div 10)

\* the zone whose centre is nearest among the matching ones
zone_case_nearest(lat, lon, sel) ==
    LET hits == {k \in 1 .. Len(sel) : InBox(lat, lon, ZoneOf(sel[k]))}
    IN  IF hits = {} THEN "unknown"
        ELSE sel[CHOOSE k \in hits : \A j \in hits :
                    \/ CenterDistance2(lat, lon, ZoneOf(sel[k]))
                         < CenterDistance2(lat, lon, ZoneOf(sel[j]))
                    \/ (CenterDistance2(lat, lon, ZoneOf(sel[k]))
                         = CenterDistance2(lat, lon, ZoneOf(sel[j])) /\ k <= j)]

RECURSIVE zone_case(_, _, _)
\* CASE WHEN (box of sel[1]) THEN sel[1] WHEN (box of sel[2]) ... ELSE 'unknown' END
zone_case(lat, lon, sel) ==
    IF sel = <<>> THEN "unknown"
    ELSE IF InBox(lat, lon, ZoneOf(Head(sel))) THEN Head(sel)
    ELSE zone_case(lat, lon, Tail(sel))

\* ORDER BY order_value DESC
ValueOrder(a, b) == a.order_value > b.order_value

\* WHERE ((box of sel[1]) OR (box of sel[2]) OR ...)
in_selected_zone_unfiltered(lat, lon, sel) == TRUE
in_selected_zone(lat, lon, sel) ==
    \E k \in 1 .. Len(sel) : InBox(lat, lon, ZoneOf(sel[k]))

\* contains_query: the orders inside the box of a selected zone, each with the
\* zone of the CASE, largest order value first, LIMIT; rows that tie in the
\* ORDER BY come in storage order
contains_query(table, sel) ==
    LET hit(r) == in_selected_zone(r.customer_lat, r.customer_lon, sel)
        row(r) == [order_id |-> r.order_id,
                   customer_lat |-> r.customer_lat, customer_lon |-> r.customer_lon,
                   order_value |-> r.order_value, store_id |-> r.store_id,
                   zone_id |-> zone_case(r.customer_lat, r.customer_lon, sel)]
        rows == SortBy(SelectSeq(table, hit), ValueOrder)
    IN  Take([k \in 1 .. Len(rows) |-> row(rows[k])], ContainsLimit)

\* the queries the handler issues: zones_query, and contains_query unless it
\* returned at "No zones found" or "Please select at least one zone"
contains_queries(zones_df, sel) ==
    {"zones_query"}
      \cup (IF zones_df # <<>> /\ sel # <<>> THEN {"contains_query"} ELSE {})

show_st_contains_demo(up, sel) ==
    LET zones_df   == run_query(up, ZonesQueryColumns, geo_zones_columns, GeoZones)
        results    == run_query(up, ContainsQueryColumns, CustomerOrdersColumns,
                                contains_query(customer_orders, sel))
    IN  /\ demo' = "contains"
        /\ conn_up' = up
        /\ queries_run' = contains_queries(zones_df, sel)
        /\ query_errors' =
              {q \in {"zones_query"} : Raises(up, ZonesQueryColumns, geo_zones_columns)}
              \cup {q \in {"contains_query"} :
                  /\ zones_df # <<>> /\ sel # <<>>
                  /\ Raises(up, ContainsQueryColumns, CustomerOrdersColumns)}
        /\ UNCHANGED <<dbVars, genVars, havVars>>
        /\ max_distance' = 0
        /\ min_order_value' = 0
        /\ selected_center' = "none"
        /\ coverage_radius' = 0
        /\ store_analysis' = <<>>
        /\ coverage_rate' = NoRate
        /\ IF zones_df = <<>>
           THEN /\ sel = <<>>
                /\ outcome' = "no_zones"
                /\ selected' = <<>>
                /\ results_df' = <<>>
           ELSE /\ sel \in InjectiveSeqs({z.zone_id : z \in Range(zones_df)})
                /\ selected' = sel
                /\ results_df' = (IF sel = <<>> THEN <<>> ELSE results)
                /\ outcome' = (IF sel = <<>> THEN "no_selection"
                               ELSE IF results = <<>> THEN "no_customers"
                               ELSE "results")

ShowContains ==
    \E up \in BOOLEAN, sel \in InjectiveSeqs(ZoneIds) : show_st_contains_demo(up, sel)

InitContains ==
    /\ customer_orders \in Tables(ContainsCustomers, ContainsValues)
    /\ geo_zones_columns \in {GeneratorZoneColumns, ManualZoneColumns}
    /\ geo_zones = GeoZones
    /\ NoRun
    /\ GenIdle

SpecContains == InitContains /\ [][ShowContains]_vars

(***************************************************************************)
(* Claims about the zone handler (SpecContains).                           *)
(***************************************************************************)
\* the box test of the query, spelled out on the double bounds: x is at or
\* above the computed center - 0.05 and at or below the computed center + 0.05
AdmitsAxis(x, c) ==
    /\ \/ x > c - ZoneMargin
       \/ (x = c - ZoneMargin /\ FloatAdd(c, -ZoneMargin).e <= 0)
    /\ \/ x < c + ZoneMargin
       \/ (x = c + ZoneMargin /\ FloatAdd(c, ZoneMargin).e >= 0)

Admits(r, z) == AdmitsAxis(r.customer_lat, z.lat) /\ AdmitsAxis(r.customer_lon, z.lon)

\* the box test in decimal arithmetic: |lat - center_lat| <= 0.05 and
\* |lon - center_lon| <= 0.05
ExactInBox(r, z) ==
    /\ Abs(r.customer_lat - z.lat) <= ZoneMargin
    /\ Abs(r.customer_lon - z.lon) <= ZoneMargin

StrictlyInBox(r, z) ==
    /\ Abs(r.customer_lat - z.lat) < ZoneMargin
    /\ Abs(r.customer_lon - z.lon) < ZoneMargin

SelectedZones == {ZoneOf(selected[k]) : k \in 1 .. Len(selected)}

ContainsRanUncut ==
    /\ demo = "contains" /\ conn_up /\ selected # <<>>
    /\ outcome \in {"results", "no_customers"}
    /\ Len(results_df) < ContainsLimit

\* C9 (as stated): a customer is a member of a zone exactly when
\* |lat - center_lat| <= 0.05 and |lon - center_lon| <= 0.05 (decimal), so a
\* point on the box edge is a member.
C9_ExactBox ==
    /\ demo = "contains" =>
          \A r \in Range(results_df) : ExactInBox(r, ZoneOf(r.zone_id))
    /\ ContainsRanUncut =>
          \A t \in Range(customer_orders) :
              (\E z \in SelectedZones : ExactInBox(t, z)) => t.order_id \in ReturnedIds

\* C9 (amended): membership is the inclusive test against the double-precision
\* bounds center - 0.05 and center + 0.05 as the client computes them.  Every
\* member has |lat - center_lat| <= 0.05 and |lon - center_lon| <= 0.05; every
\* point with both differences < 0.05, the centre included, is a member; a
\* point more than 0.05 away on an axis (by a micro-degree or more) is never a
\* member; a point exactly 0.05 away is a member unless the computed bound is
\* rounded inward (77.5833 + 0.05 = 77.63329999999999 excludes 77.6333).
C9_BoxOfDoubles ==
    /\ demo = "contains" =>
          \A r \in Range(results_df) :
              ExactInBox(r, ZoneOf(r.zone_id)) /\ Admits(r, ZoneOf(r.zone_id))
    /\ ContainsRanUncut =>
          \A t \in Range(customer_orders) :
              /\ (\E z \in SelectedZones : StrictlyInBox(t, z)) => t.order_id \in ReturnedIds
              /\ (\E z \in SelectedZones : Admits(t, z)) <=> t.order_id \in ReturnedIds

\* C9 witness: with ZONE_002 selected, the order on its upper latitude edge is
\* returned and the order one micro-degree beyond it is not.
C9_Witness ==
    /\ ContainsRanUncut
    /\ selected = <<"ZONE_002">>
    /\ \E t \in Range(customer_orders) :
          /\ t.customer_lat = ZoneOf("ZONE_002").lat + ZoneMargin
          /\ t.order_id \in ReturnedIds
    /\ \E t \in Range(customer_orders) :
          /\ t.customer_lat = ZoneOf("ZONE_002").lat + ZoneMargin + 1
          /\ t.order_id \notin ReturnedIds

(***************************************************************************)
(* app_geospatial_demo.py: main, on a database the generator populated or  *)
(* one set up by hand (Spec).                                              *)
(***************************************************************************)
\* customers <<lat, lon, store>> of the tables main is run on
DemoCustomers == {<<12950000, 77640000, 2>>, <<13000000, 77600000, 1>>}
DemoStores == {c[3] : c \in DemoCustomers}
DemoValues == {6000}

CountQueryColumns == {}

\* check_sample_data: (orders_count, zones_count), 0 for a query that gave nothing
check_sample_data(up) ==
    <<IF run_query(up, CountQueryColumns, CustomerOrdersColumns, <<1>>) = <<>>
      THEN 0 ELSE Len(customer_orders),
      IF run_query(up, CountQueryColumns, geo_zones_columns, <<1>>) = <<>>
      THEN 0 ELSE Len(geo_zones)>>

\* main when the counts send it to show_data_setup
show_data_setup(up) ==
    /\ check_sample_data(up)[1] = 0 \/ check_sample_data(up)[2] = 0
    /\ demo' = "none"
    /\ conn_up' = up
    /\ queries_run' = {"orders_count_query", "zones_count_query"}
    /\ query_errors' = {}
    /\ outcome' = "data_setup"
    /\ Fresh
    /\ UNCHANGED <<dbVars, genVars, havVars>>

\* main when it routes to the handler picked in the selectbox
HasData(up) == check_sample_data(up)[1] # 0 /\ check_sample_data(up)[2] # 0

MainDistance ==
    \E up \in BOOLEAN, sel \in InjectiveSeqs(DemoStores),
       maxd \in MaxDistances, minv \in MinOrderValues :
        HasData(up) /\ show_st_distance_demo(up, sel, maxd, minv)

MainContains ==
    \E up \in BOOLEAN, sel \in InjectiveSeqs(ZoneIds) :
        HasData(up) /\ show_st_contains_demo(up, sel)

MainCovers ==
    \E up \in BOOLEAN, center \in CoverageCenters, radius \in CoverageRadii :
        HasData(up) /\ show_st_covers_demo(up, center, radius)

MainSetup == \E up \in BOOLEAN : show_data_setup(up)

Init ==
    /\ customer_orders \in Tables(DemoCustomers, DemoValues)
    /\ geo_zones_columns \in {GeneratorZoneColumns, ManualZoneColumns}
    /\ geo_zones = GeoZones
    /\ NoRun
    /\ GenIdle

Next == MainSetup \/ MainDistance \/ MainContains \/ MainCovers

Spec == Init /\ [][Next]_vars

\* C1: on a database populated by the generator every column a handler reads
\* exists, so every handler query succeeds and the handler gets past the
\* 'no data' branch of its first query.
C1_HandlersReadGeneratorColumns ==
    (/\ demo \in {"distance", "contains", "covers"}
     /\ conn_up
     /\ geo_zones_columns = GeneratorZoneColumns
     /\ customer_orders # <<>>) =>
        /\ query_errors = {}
        /\ outcome \notin {"no_store_data", "no_zones"}

(***************************************************************************)
(* generate_sample_data.py: generate_customer_orders as a process          *)
(* (SpecGen).                                                              *)
(***************************************************************************)
\* the call generate_customer_orders(n)
GenCall ==
    /\ gen_pc = "idle"
    /\ \E n \in GenCounts : num_orders' = n
    /\ gen_pc' = "loop"
    /\ i' = 0
    /\ orders' = <<>>
    /\ UNCHANGED <<dbVars, runVars, mainVars, havVars>>

\* one iteration of for i in range(num_orders)
GenIterate ==
    /\ gen_pc = "loop"
    /\ i < num_orders
    /\ \E store \in GenStores, lat_offset \in GenOffsets, lon_offset \in GenOffsets,
          order_value \in GenOrderValues, noise \in GenNoise :
          orders' = Append(orders,
                           NewOrder(i, store, lat_offset, lon_offset, order_value, noise))
    /\ i' = i + 1
    /\ UNCHANGED <<gen_pc, num_orders, dbVars, runVars, mainVars, havVars>>

\* return pd.DataFrame(orders)
GenReturn ==
    /\ gen_pc = "loop"
    /\ ~(i < num_orders)
    /\ gen_pc' = "done"
    /\ UNCHANGED <<num_orders, i, orders, dbVars, runVars, mainVars, havVars>>

InitGen ==
    /\ customer_orders = <<>>
    /\ geo_zones_columns = GeneratorZoneColumns
    /\ geo_zones = GeoZones
    /\ NoRun
    /\ GenIdle

NextGen == GenCall \/ GenIterate \/ GenReturn

SpecGen == InitGen /\ [][NextGen]_vars

(***************************************************************************)
(* Claims about the generator (SpecGen).                                   *)
(***************************************************************************)
RECURSIVE DigitsValue(_)
\* the number a sequence of decimal digits denotes
DigitsValue(ds) ==
    IF ds = <<>> THEN 0 ELSE 10 * DigitsValue(SubSeq(ds, 1, Len(ds) - 1)) + ds[Len(ds)]

\* C5: generate_customer_orders(n) returns exactly n records for n >= 1, the
\* k-th with id 'ORD_' followed by k zero-padded to at least 6 digits, all ids
\* pairwise distinct; for n <= 0 it returns an empty frame (and does return).
C5_ExactlyNSequentialIds ==
    /\ gen_pc = "done" =>
          /\ Len(orders) = Max2(num_orders, 0)
          /\ \A k \in 1 .. Len(orders) :
                /\ orders[k].order_id.prefix = "ORD_"
                /\ Len(orders[k].order_id.digits) >= 6
                /\ \A d \in Range(orders[k].order_id.digits) : d \in 0 .. 9
                /\ DigitsValue(orders[k].order_id.digits) = k
                /\ Len(orders[k].order_id.digits) > 6 =>
                      orders[k].order_id.digits[1] # 0
          /\ \A a, b \in 1 .. Len(orders) :
                a # b => orders[a].order_id # orders[b].order_id
    /\ (gen_pc = "loop" /\ num_orders <= 0) => (orders = <<>> /\ ENABLED GenReturn)

\* C5 witness: a call with n >= 2 has returned.
C5_Witness ==
    gen_pc = "done" /\ num_orders >= 2 /\ Len(orders) = num_orders

\* C6: every generated order has customer_lat in [12.8, 13.2], customer_lon in
\* [77.4, 77.8] (after rounding to 6 decimals) and an integer
\* delivery_time_minutes in [10, 90], whatever the offsets and the noise.
C6_WithinBounds ==
    \A k \in 1 .. Len(orders) :
        /\ orders[k].customer_lat \in 12800000 .. 13200000
        /\ orders[k].customer_lon \in 77400000 .. 77800000
        /\ orders[k].delivery_time_minutes \in 10 .. 90

\* C6 witness: orders that the clamps caught: one with latitude at the lower
\* and longitude at the upper bound of the rectangle and a delivery time cut
\* to 90, and one with a delivery time raised to 10.
C6_Witness ==
    /\ \E k \in 1 .. Len(orders) :
          /\ orders[k].customer_lat = 12800000 /\ orders[k].customer_lon = 77800000
          /\ orders[k].delivery_time_minutes = 90
    /\ \E k \in 1 .. Len(orders) : orders[k].delivery_time_minutes = 10

(***************************************************************************)
(* generate_sample_data.py: main, check_existing_data,                     *)
(* create_tables_if_not_exist and insert_data_batch as a process           *)
(* (SpecMain).  Every cursor.execute can raise.                            *)
(***************************************************************************)
\* batch_size=1000 of insert_data_batch, scaled to the size of the modelled frames
BatchSize == 3
\* generate_customer_orders(50000) of main, scaled: one full batch and a partial one
MainNumOrders == 4

\* generate_geo_zones(): the fixed zones, in the order of the list
generate_geo_zones == <<ZoneOf("ZONE_002"), ZoneOf("ZONE_003"), ZoneOf("ZONE_006")>>

\* the draws of the run of generate_customer_orders that main makes
MainStores == {stores[3]}
MainOffsets == {4}
MainNoise == {37}
MainOrderValues == {6000}

\* a statement handed to cursor.execute
Statement(kind, table, rows) == [kind |-> kind, table |-> table, rows |-> rows]

\* print(f"   Inserted batch {i//batch_size + 1} ({min(i+batch_size, total_rows):,}/{total_rows:,} rows)")
InsertedReport(k, total_rows) ==
    [text |-> "Inserted batch", batch |-> k \div BatchSize + 1,
     upto |-> Min2(k + BatchSize, total_rows), total |-> total_rows, e |-> ""]

\* print(f"   Error inserting batch: {e}"): the text of the exception and nothing
\* else (batch, upto and total are 0: the message names none of them)
ErrorReport(k, total_rows) ==
    [text |-> "Error inserting batch", batch |-> 0,
     upto |-> 0, total |-> 0, e |-> "rejected by storage"]

\* print("Failed to connect to Firebolt. ..."), print("Skipping data generation.")
Notice(text) == [text |-> text, batch |-> 0, upto |-> 0, total |-> 0, e |-> ""]

\* main is started (again): a new process, with nothing issued or printed yet;
\* get_connection() returns a connection or None
MainStart ==
    /\ main_pc \in {"start", "done"}
    /\ runs < MaxRuns
    /\ runs' = runs + 1
    /\ statements' = <<>>
    /\ gen_pc' = "idle" /\ num_orders' = 0 /\ i' = 0 /\ orders' = <<>>
    /\ insert_pc' = "idle" /\ table_name' = "none" /\ insert_df' = <<>>
    /\ batch_i' = 0 /\ cursor' = "none"
    /\ \E connected \in BOOLEAN :
          /\ connection' = (IF connected THEN "open" ELSE "none")
          /\ printed' = (IF connected THEN <<>> ELSE <<Notice("Failed to connect")>>)
          /\ main_pc' = (IF connected THEN "check" ELSE "done")
    /\ UNCHANGED <<dbVars, runVars, havVars>>

\* check_existing_data: the two row counts, or (0, 0) when a COUNT raises;
\* failing is the COUNT that raises (0: none)
ExistingCounts(failing) ==
    IF failing = 0 THEN <<Len(customer_orders), Len(geo_zones)>> ELSE <<0, 0>>

CountStatements(failing) ==
    IF failing = 1 THEN <<Statement("COUNT", "customer_orders", <<>>)>>
    ELSE <<Statement("COUNT", "customer_orders", <<>>),
           Statement("COUNT", "geo_zones", <<>>)>>

\* orders_count, zones_count = check_existing_data(connection)
MainCheckExisting ==
    /\ main_pc = "check"
    /\ \E failing \in 0 .. 2 :
          /\ statements' = statements \o CountStatements(failing)
          /\ main_pc' = (IF ExistingCounts(failing)[1] > 0 \/ ExistingCounts(failing)[2] > 0
                         THEN "ask" ELSE "create")
    /\ UNCHANGED <<runs, connection, printed, insert_pc, table_name, insert_df,
                   batch_i, cursor, gen_pc, num_orders, i, orders, dbVars, runVars, havVars>>

\* what the user can type at the prompt
Responses == {"y", "Y", "n", "yes", ""}
\* .lower()
Lower(str) == IF str = "Y" THEN "y" ELSE str

\* if response != 'y': print(...); connection.close(); return
OnDeclineKeepOpen == [connection |-> "open", pc |-> "done"]
OnDecline == [connection |-> "closed", pc |-> "done"]

\* response = input(...).lower(); if response != 'y': connection.close(); return
MainAsk ==
    /\ main_pc = "ask"
    /\ \E typed \in Responses :
          IF Lower(typed) # "y"
          THEN /\ printed' = Append(printed, Notice("Skipping data generation"))
               /\ connection' = OnDecline.connection
               /\ main_pc' = OnDecline.pc
          ELSE /\ printed' = printed
               /\ connection' = connection
               /\ main_pc' = "create"
    /\ UNCHANGED <<runs, statements, insert_pc, table_name, insert_df,
                   batch_i, cursor, gen_pc, num_orders, i, orders, dbVars, runVars, havVars>>

\* create_tables_if_not_exist: CREATE TABLE IF NOT EXISTS for both tables; an
\* exception of the first skips the second (failing: the CREATE that raises)
MainCreateTables ==
    /\ main_pc = "create"
    /\ \E failing \in 0 .. 2 :
          statements' = statements \o
              (IF failing = 1
               THEN <<Statement("CREATE", "customer_orders", <<>>)>>
               ELSE <<Statement("CREATE", "customer_orders", <<>>),
                      Statement("CREATE", "geo_zones", <<>>)>>)
    /\ main_pc' = "generate"
    /\ UNCHANGED <<runs, connection, printed, insert_pc, table_name, insert_df,
                   batch_i, cursor, gen_pc, num_orders, i, orders, dbVars, runVars, havVars>>

\* orders_df = generate_customer_orders(50000): the call, ...
MainGenCall ==
    /\ main_pc = "generate" /\ gen_pc = "idle"
    /\ num_orders' = MainNumOrders
    /\ gen_pc' = "loop"
    /\ i' = 0
    /\ orders' = <<>>
    /\ UNCHANGED <<mainVars, dbVars, runVars, havVars>>

\* ... an iteration of its loop, ...
MainGenIterate ==
    /\ main_pc = "generate" /\ gen_pc = "loop"
    /\ i < num_orders
    /\ \E store \in MainStores, lat_offset \in MainOffsets, lon_offset \in MainOffsets,
          order_value \in MainOrderValues, noise \in MainNoise :
          orders' = Append(orders,
                           NewOrder(i, store, lat_offset, lon_offset, order_value, noise))
    /\ i' = i + 1
    /\ UNCHANGED <<gen_pc, num_orders, mainVars, dbVars, runVars, havVars>>

\* ... and its return
MainGenReturn ==
    /\ main_pc = "generate" /\ gen_pc = "loop"
    /\ ~(i < num_orders)
    /\ gen_pc' = "done"
    /\ UNCHANGED <<num_orders, i, orders, mainVars, dbVars, runVars, havVars>>

\* the row a VALUES tuple of the INSERT stores: the fields of the frame's row
\* written in the order of the table's columns
StoredRow(table, row) ==
    IF table = "customer_orders"
    THEN [order_id      |-> row.order_id,
          customer_lat  |-> row.customer_lat,
          customer_lon  |-> row.customer_lon,
          order_value   |-> row.order_value,
          store_id      |-> row.store_id,
          store_lat     |-> row.store_lat,
          store_lon     |-> row.store_lon,
          delivery_time_minutes |-> row.delivery_time_minutes]
    ELSE [zone_id |-> row.zone_id, lat |-> row.lat, lon |-> row.lon]

\* batch = df.iloc[i:i+batch_size]
BatchOneMore(frame, k) == SubSeq(frame, k + 1, Min2(k + BatchSize + 1, Len(frame)))
Batch(frame, k) == SubSeq(frame, k + 1, Min2(k + BatchSize, Len(frame)))

\* insert_data_batch(connection, table, frame) is called: cursor =
\* connection.cursor(), and the loop starts at i = 0
insert_data_batch(table, frame) ==
    /\ insert_pc' = "loop"
    /\ table_name' = table
    /\ insert_df' = frame
    /\ batch_i' = 0
    /\ cursor' = "open"

\* insert_data_batch(connection, 'customer_orders', orders_df)
MainInsertOrders ==
    /\ main_pc = "generate" /\ gen_pc = "done"
    /\ insert_data_batch("customer_orders", orders)
    /\ main_pc' = "insert_orders"
    /\ UNCHANGED <<runs, connection, statements, printed,
                   gen_pc, num_orders, i, orders, dbVars, runVars, havVars>>

\* zones_df = generate_geo_zones(); insert_data_batch(connection, 'geo_zones', zones_df)
MainInsertZones ==
    /\ main_pc = "zones"
    /\ insert_data_batch("geo_zones", generate_geo_zones)
    /\ main_pc' = "insert_zones"
    /\ UNCHANGED <<runs, connection, statements, printed,
                   gen_pc, num_orders, i, orders, dbVars, runVars, havVars>>

\* except Exception: ... break: the loop is left with i at the chunk that raised
OnRaiseContinue(k) == [pc |-> "loop", i |-> k + BatchSize]
OnRaise(k) == [pc |-> "closing", i |-> k]

\* one iteration of for i in range(0, total_rows, batch_size): the INSERT of
\* the batch succeeds and is reported, or it raises and the loop is left
InsertBatch ==
    /\ insert_pc = "loop"
    /\ batch_i < Len(insert_df)
    /\ LET batch  == Batch(insert_df, batch_i)
           stored == [k \in 1 .. Len(batch) |-> StoredRow(table_name, batch[k])]
       IN  /\ statements' = Append(statements, Statement("INSERT", table_name, batch))
           /\ \E accepted \in BOOLEAN :
                 IF accepted
                 THEN /\ customer_orders' =
                            (IF table_name = "customer_orders"
                             THEN customer_orders \o stored ELSE customer_orders)
                      /\ geo_zones' =
                            (IF table_name = "geo_zones"
                             THEN geo_zones \o stored ELSE geo_zones)
                      /\ printed' = Append(printed, InsertedReport(batch_i, Len(insert_df)))
                      /\ batch_i' = batch_i + BatchSize
                      /\ insert_pc' = "loop"
                 ELSE /\ UNCHANGED <<customer_orders, geo_zones>>
                      /\ printed' = Append(printed, ErrorReport(batch_i, Len(insert_df)))
                      /\ batch_i' = OnRaise(batch_i).i
                      /\ insert_pc' = OnRaise(batch_i).pc
    /\ UNCHANGED <<main_pc, runs, connection, table_name, insert_df, cursor,
                   gen_pc, num_orders, i, orders, geo_zones_columns, runVars, havVars>>

\* range(0, total_rows, batch_size) is exhausted
InsertLoopEnd ==
    /\ insert_pc = "loop"
    /\ ~(batch_i < Len(insert_df))
    /\ insert_pc' = "closing"
    /\ UNCHANGED <<main_pc, runs, connection, statements, printed, table_name,
                   insert_df, batch_i, cursor,
                   gen_pc, num_orders, i, orders, dbVars, runVars, havVars>>

\* cursor.close(); insert_data_batch returns (None) and main goes on
InsertReturn ==
    /\ insert_pc = "closing"
    /\ cursor' = "closed"
    /\ insert_pc' = "idle"
    /\ main_pc' = (IF main_pc = "insert_orders" THEN "zones"
                   ELSE IF main_pc = "insert_zones" THEN "verify" ELSE main_pc)
    /\ UNCHANGED <<runs, connection, statements, printed, table_name, insert_df,
                   batch_i, gen_pc, num_orders, i, orders, dbVars, runVars, havVars>>

\* final_orders, final_zones = check_existing_data(connection); the counts are
\* printed; connection.close()
MainVerify ==
    /\ main_pc = "verify"
    /\ \E failing \in 0 .. 2 : statements' = statements \o CountStatements(failing)
    /\ connection' = "closed"
    /\ main_pc' = "done"
    /\ UNCHANGED <<runs, printed, insert_pc, table_name, insert_df, batch_i, cursor,
                   gen_pc, num_orders, i, orders, dbVars, runVars, havVars>>

\* a database whose two tables exist and are empty; the script not yet started
InitMain ==
    /\ customer_orders = <<>>
    /\ geo_zones_columns = GeneratorZoneColumns
    /\ geo_zones = <<>>
    /\ NoRun
    /\ GenIdle

NextMain ==
    \/ MainStart \/ MainCheckExisting \/ MainAsk \/ MainCreateTables
    \/ MainGenCall \/ MainGenIterate \/ MainGenReturn
    \/ MainInsertOrders \/ InsertBatch \/ InsertLoopEnd \/ InsertReturn
    \/ MainInsertZones \/ MainVerify

SpecMain == InitMain /\ [][NextMain]_vars

\* the script is a sequential program: once started it runs on to its end (the
\* user answers the prompt)
SpecMainFair == SpecMain /\ WF_vars(NextMain)

(***************************************************************************)
(* Claims about the generator script (SpecMain, SpecMainFair).             *)
(***************************************************************************)
\* C15 (as stated): after any sequence of runs of main against the same
\* database no two rows of customer_orders share an order_id.
C15_UniqueOrderIds ==
    \A a, b \in 1 .. Len(customer_orders) :
        a # b => customer_orders[a].order_id # customer_orders[b].order_id

\* C16: an empty selection is rejected before the main query.  A run of the
\* distance handler that ended with no store selected passed no
\* distance_query to run_query and left no result rows and no store summary;
\* a run of the containment handler that ended with no zone selected passed
\* no contains_query to run_query and left no result rows.
C16_EmptySelectionRejected ==
    /\ (demo = "distance" /\ selected = <<>>) =>
          /\ "distance_query" \notin queries_run
          /\ results_df = <<>>
          /\ store_analysis = <<>>
    /\ (demo = "contains" /\ selected = <<>>) =>
          /\ "contains_query" \notin queries_run
          /\ results_df = <<>>

\* the distance handler got its store list from a populated table and stopped
\* at "Please select at least one store"
C16_Witness ==
    /\ demo = "distance"
    /\ conn_up
    /\ customer_orders # <<>>
    /\ outcome = "no_selection"
    /\ selected = <<>>
    /\ queries_run = {"stores_query"}

(***************************************************************************)
(* app_geospatial_demo.py: the handlers on a connection that can fail      *)
(* between main's check and the handler's queries, and on tables whose     *)
(* rows the queries can all filter away (SpecHandlers).                    *)
(***************************************************************************)
\* customers <<lat, lon, store>> of the tables the handlers are run on: one
\* inside and one outside every coverage pre-filter box
HandlersCustomers == {<<12950000, 77640000, 2>>, <<12850000, 77600000, 1>>}
HandlersValues == {6000}

InitHandlers ==
    /\ customer_orders \in Tables(HandlersCustomers, HandlersValues)
    /\ geo_zones_columns \in {GeneratorZoneColumns, ManualZoneColumns}
    /\ geo_zones = GeoZones
    /\ NoRun
    /\ GenIdle

HandlersDistance ==
    \E up \in BOOLEAN, sel \in InjectiveSeqs({c[3] : c \in HandlersCustomers}),
       maxd \in MaxDistances, minv \in MinOrderValues :
        show_st_distance_demo(up, sel, maxd, minv)

NextHandlers == MainSetup \/ HandlersDistance \/ ShowContains \/ ShowCovers

SpecHandlers == InitHandlers /\ [][NextHandlers]_vars

\* the query of the run came back to its handler as an empty frame: there was
\* no connection, its execution raised, or it selected no row
CameBackEmpty(q, rows) ==
    /\ q \in queries_run
    /\ ~conn_up \/ q \in query_errors \/ rows = <<>>

\* C17: no query failure becomes an abort.  Every run ends in one of the
\* handler's own branches, and a run one of whose queries came back empty
\* (no connection, an execution error, or no row) ends in the warning branch
\* of that query with no result rows, no per-store summary and no coverage
\* rate computed; check_sample_data in that case reports a count of 0 and main
\* shows the setup page.
C17_EmptyTableEndsInWarning ==
    /\ outcome \in {"none", "data_setup", "no_store_data", "no_selection",
                    "no_order_data", "no_orders_in_range", "no_zones",
                    "no_customers", "no_data", "results"}
    /\ (demo = "distance"
          /\ CameBackEmpty("stores_query", StoresQuery(customer_orders))) =>
            /\ outcome = "no_store_data"
            /\ results_df = <<>> /\ store_analysis = <<>>
    /\ (demo = "distance"
          /\ CameBackEmpty("distance_query",
                DistanceQuery(customer_orders, selected, min_order_value))) =>
            /\ outcome = "no_order_data"
            /\ results_df = <<>> /\ store_analysis = <<>>
    /\ (demo = "contains" /\ CameBackEmpty("zones_query", geo_zones)) =>
            /\ outcome = "no_zones"
            /\ results_df = <<>>
    /\ (demo = "contains"
          /\ CameBackEmpty("contains_query",
                contains_query(customer_orders, selected))) =>
            /\ outcome = "no_customers"
            /\ results_df = <<>>
    /\ (demo = "covers"
          /\ CameBackEmpty("coverage_query",
                coverage_query(customer_orders, selected_center, coverage_radius))) =>
            /\ outcome = "no_data"
            /\ results_df = <<>> /\ coverage_rate = NoRate
    /\ (demo = "none"
          /\ (CameBackEmpty("orders_count_query", customer_orders)
                \/ CameBackEmpty("zones_count_query", geo_zones))) =>
            /\ outcome = "data_setup"
            /\ results_df = <<>>

\* the connection was lost before the distance handler's first query on a
\* populated table, and the handler stopped at "No store data available"
C17_Witness ==
    /\ demo = "distance"
    /\ ~conn_up
    /\ customer_orders # <<>>
    /\ queries_run = {"stores_query"}
    /\ outcome = "no_store_data"

\* C18: a rejected chunk is reported with its index.  While insert_data_batch
\* is leaving its loop because the INSERT of a chunk raised, the message it
\* printed last is the error report and names the number of that chunk
\* (batch_i // batch_size + 1, as the success message does).
C18_FailureReportedWithChunkIndex ==
    (insert_pc = "closing" /\ batch_i < Len(insert_df)) =>
        /\ printed # <<>>
        /\ printed[Len(printed)].text = "Error inserting batch"
        /\ printed[Len(printed)].batch = batch_i \div BatchSize + 1

\* C19: the generator's output is a chunkable stream.  As soon as the
\* generator has produced the orders of a first chunk, and before it has
\* produced all the orders requested, main can start inserting orders.
C19_FirstChunkInsertableDuringGeneration ==
    (main_pc = "generate" /\ gen_pc = "loop"
        /\ Len(orders) >= BatchSize /\ i < num_orders)
      => ENABLED MainInsertOrders

(***************************************************************************)
(* app_geospatial_demo.py: haversine_distance called on any two of the     *)
(* model's locations (SpecHaversine).                                      *)
(***************************************************************************)
\* the locations <<lat, lon>> haversine_distance is evaluated at
HaversinePoints == {<<t[1], t[2]>> : t \in HaversineTable}

\* haversine_distance(lat1, lon1, lat2, lon2) is called ...
HaversineCall ==
    /\ hav_pc \in {"idle", "returned"}
    /\ \E a \in HaversinePoints, b \in HaversinePoints :
          hav_args' = <<a[1], a[2], b[1], b[2]>>
    /\ hav_result' = <<>>
    /\ hav_pc' = "called"
    /\ UNCHANGED <<dbVars, runVars, genVars>>

\* ... and returns R * c
HaversineReturn ==
    /\ hav_pc = "called"
    /\ hav_result' =
          [mm     |-> haversine_distance(hav_args[1], hav_args[2], hav_args[3], hav_args[4]),
           double |-> haversine_double(hav_args[1], hav_args[2], hav_args[3], hav_args[4])]
    /\ hav_pc' = "returned"
    /\ UNCHANGED <<hav_args, dbVars, runVars, genVars>>

InitHaversine ==
    /\ customer_orders = <<>>
    /\ geo_zones_columns = GeneratorZoneColumns
    /\ geo_zones = GeoZones
    /\ NoRun
    /\ GenIdle

NextHaversine == HaversineCall \/ HaversineReturn

SpecHaversine == InitHaversine /\ [][NextHaversine]_vars

\* C20: the great-circle distance is symmetric and zero on identical points.
\* What a call haversine_distance(a, b) returned is, bit for bit, what
\* haversine_distance(b, a) returns, and when a = b it is 0.0.
C20_SymmetricAndZeroOnIdentical ==
    hav_pc = "returned" =>
        /\ hav_result.mm =
              haversine_distance(hav_args[3], hav_args[4], hav_args[1], hav_args[2])
        /\ hav_result.double =
              haversine_double(hav_args[3], hav_args[4], hav_args[1], hav_args[2])
        /\ (hav_args[1] = hav_args[3] /\ hav_args[2] = hav_args[4]) =>
              (hav_result.mm = 0 /\ hav_result.double = <<0, 0, 0>>)

\* a call from a point to a different point further south has returned a
\* distance that is not 0
C20_Witness ==
    /\ hav_pc = "returned"
    /\ hav_args[3] < hav_args[1]
    /\ hav_result.mm > 0
    /\ hav_result.double # <<0, 0, 0>>

(***************************************************************************)
(* generate_sample_data.py: insert_data_batch called on its own, on any    *)
(* frame of generated orders or zones, the empty one included (SpecInsert).*)
(***************************************************************************)
\* most rows of a frame passed to insert_data_batch
MaxInsertRows == 10

\* the frames: the first n orders of a run of the generator, the first n zones
OrderFrames ==
    {[k \in 1 .. n |-> NewOrder(k - 1, stores[3], 4, 4, 6000, 37)] :
        n \in 0 .. MaxInsertRows}
ZoneFrames == {Take(generate_geo_zones, n) : n \in 0 .. Len(generate_geo_zones)}

\* insert_data_batch(connection, table_name, df) is called on empty tables
InsertCall ==
    /\ insert_pc = "idle" /\ table_name = "none"
    /\ \/ \E frame \in OrderFrames : insert_data_batch("customer_orders", frame)
       \/ \E frame \in ZoneFrames : insert_data_batch("geo_zones", frame)
    /\ connection' = "open"
    /\ UNCHANGED <<main_pc, runs, statements, printed,
                   gen_pc, num_orders, i, orders, dbVars, runVars, havVars>>

InitInsert == InitMain

NextInsert == InsertCall \/ InsertBatch \/ InsertLoopEnd \/ InsertReturn

SpecInsert == InitInsert /\ [][NextInsert]_vars

\* the INSERT statements issued so far, the rows they carried end to end, and
\* the rows of the call's table
Inserts == SelectSeq(statements, LAMBDA st : st.kind = "INSERT")
RECURSIVE RowsCarried(_)
RowsCarried(sts) ==
    IF sts = <<>> THEN <<>> ELSE sts[1].rows \o RowsCarried(Tail(sts))
TableOfCall == IF table_name = "customer_orders" THEN customer_orders ELSE geo_zones
StoredFrame(frame) == [k \in 1 .. Len(frame) |-> StoredRow(table_name, frame[k])]

\* the loop of the call ran to its end: no INSERT raised
LoopExhausted == insert_pc \in {"closing", "idle"} /\ table_name # "none"
                    /\ ~(batch_i < Len(insert_df))
\* the loop of the call was left because an INSERT raised
LoopBroken ==
    /\ table_name # "none"
    /\ \E k \in 1 .. Len(printed) : printed[k].text = "Error inserting batch"

\* C21: a call in which no INSERT raised has issued ceil(n / batch_size)
\* INSERTs, each of 1 .. batch_size rows, which laid end to end are the frame
\* in row order; the table holds each row of the frame once; an empty frame
\* gives no INSERT.
C21_ChunksPartitionFrame ==
    LoopExhausted =>
        /\ Len(Inserts) = (Len(insert_df) + BatchSize - 1) \div BatchSize
        /\ \A k \in 1 .. Len(Inserts) :
              /\ Inserts[k].table = table_name
              /\ Len(Inserts[k].rows) \in 1 .. BatchSize
        /\ RowsCarried(Inserts) = insert_df
        /\ TableOfCall = StoredFrame(insert_df)
        /\ \A j, k \in 1 .. Len(TableOfCall) : TableOfCall[j] = TableOfCall[k] => j = k
        /\ insert_df = <<>> => statements = <<>>

\* a frame of two full chunks and a partial one has been inserted
C21_Witness ==
    /\ LoopExhausted
    /\ Len(insert_df) = 2 * BatchSize + 1
    /\ Len(Inserts) = 3
    /\ Len(customer_orders) = Len(insert_df)

\* C22: chunks are attempted in index order and none after a failed one.  In
\* a call that was left because an INSERT raised, the INSERTs issued are the
\* chunks 1 .. k in order, the k-th being the one that raised, and the table
\* holds exactly the rows of the chunks before it, a prefix of the frame; and
\* a call that has returned, either way, has closed its cursor.
C22_PrefixInsertedCursorClosed ==
    /\ LoopBroken =>
          /\ insert_pc \in {"closing", "idle"}
          /\ batch_i < Len(insert_df)
          /\ Len(Inserts) = batch_i \div BatchSize + 1
          /\ \A k \in 1 .. Len(Inserts) :
                Inserts[k].rows = Batch(insert_df, (k - 1) * BatchSize)
          /\ TableOfCall = StoredFrame(Take(insert_df, batch_i))
    /\ (insert_pc = "idle" /\ table_name # "none") => cursor = "closed"
    /\ insert_pc = "loop" => cursor = "open"

\* the second chunk of a frame of three chunks raised, and the call returned
C22_Witness ==
    /\ LoopBroken
    /\ insert_pc = "idle"
    /\ Len(insert_df) = 2 * BatchSize + 1
    /\ batch_i = BatchSize
    /\ Len(customer_orders) = BatchSize
    /\ cursor = "closed"

\* C23: every row the containment query returned carries the id of a selected
\* zone whose box, as the query tests it, contains the row's customer point;
\* no returned row carries 'unknown'.
C23_ZoneIsSelectedAndContains ==
    (demo = "contains" /\ outcome = "results") =>
        \A k \in 1 .. Len(results_df) :
            /\ results_df[k].zone_id # "unknown"
            /\ results_df[k].zone_id \in Range(selected)
            /\ InBox(results_df[k].customer_lat, results_df[k].customer_lon,
                     ZoneOf(results_df[k].zone_id))

\* a run on a table with an order outside the box of the one selected zone
\* returned rows
C23_Witness ==
    /\ demo = "contains" /\ outcome = "results"
    /\ Len(selected) = 1
    /\ results_df # <<>>
    /\ \E r \in Range(customer_orders) :
          ~InBox(r.customer_lat, r.customer_lon, ZoneOf(selected[1]))

\* customers <<lat, lon, store>> of the tables the flag is compared with the
\* reported distance on (SpecFlag): 3.1085 km and 5.0005 km from the central
\* reference point
FlagCustomers == {<<13020000, 77620000, 1>>, <<13044920, 77600000, 1>>}
FlagValues == {6000}

InitFlag ==
    /\ customer_orders \in Tables(FlagCustomers, FlagValues)
    /\ geo_zones_columns = GeneratorZoneColumns
    /\ geo_zones = GeoZones
    /\ NoRun
    /\ GenIdle

SpecFlag == InitFlag /\ [][ShowCovers]_vars

\* the slider value (steps of 0.5 km) in units of 0.01 km, as distance_km is held
RadiusReported == coverage_radius * 50

\* C24 (as stated): every returned row's flag is 1 exactly when its reported
\* distance_km, the distance rounded to 2 decimals, is <= the coverage radius.
C24_FlagAgreesWithReported ==
    demo = "covers" =>
        \A r \in Range(results_df) :
            r.is_covered = 1 <=> r.distance_km <= RadiusReported

\* C24 (amended): a returned row flagged 1 reports a distance <= the radius,
\* and a returned row that reports a distance < the radius is flagged 1; a row
\* whose reported distance equals the radius is flagged 1 or 0, as its
\* unrounded distance is <= the radius or above it.
C24_FlagAgreesUnlessReportedEqualsRadius ==
    demo = "covers" =>
        \A r \in Range(results_df) :
            /\ r.is_covered = 1 => r.distance_km <= RadiusReported
            /\ r.distance_km < RadiusReported => r.is_covered = 1
            /\ r.distance_km = RadiusReported =>
                  (r.is_covered = 1 <=> PlanarOf(r) <= RadiusMm(coverage_radius))

\* a row 5.0005 km from the centre, reported as 5.00 km with radius 5.0, is
\* flagged 0, next to a row inside the radius flagged 1
C24_Witness ==
    /\ demo = "covers" /\ outcome = "results"
    /\ \E r \in Range(results_df) :
          /\ r.distance_km = RadiusReported
          /\ PlanarOf(r) > RadiusMm(coverage_radius)
          /\ r.is_covered = 0
    /\ \E r \in Range(results_df) :
          r.distance_km < RadiusReported /\ r.is_covered = 1

\* customers <<lat, lon, store>> of the tables the pre-filter is looked at on
\* (SpecPrefilter): for each of the two centres the northernmost and the
\* easternmost 6-decimal point within 10 km of it, and a point inside the
\* central box that is 10.6 km from the centre
PrefilterCustomers ==
    {<<13089831, 77600000, 1>>, <<13000000, 77692194, 1>>,
     <<12989831, 77600000, 1>>, <<12900000, 77692157, 1>>,
     <<13095000, 77600000, 1>>}
PrefilterValues == {6000}

InitPrefilter ==
    /\ customer_orders \in Tables(PrefilterCustomers, PrefilterValues)
    /\ geo_zones_columns = GeneratorZoneColumns
    /\ geo_zones = GeoZones
    /\ NoRun
    /\ GenIdle

SpecPrefilter == InitPrefilter /\ [][ShowCovers]_vars

KindsIssued == {statements[k].kind : k \in 1 .. Len(statements)}
HasPrinted(text) == \E k \in 1 .. Len(printed) : printed[k].text = text

====
